---- MODULE Spec2Model ----
(***************************************************************************)
(* Model of the follower fight engine (package ufc_fight).                 *)
(*                                                                         *)
(* Spec    : the persistent store (Score Ledger, Stats, last-run           *)
(*           documents, backups, battle videos) under the three entry      *)
(*           points VideoFightSimulator.run, run_and_record and            *)
(*           revert_last_run.  The physics of a run is abstracted to the   *)
(*           finishing order and the sequence of damage events it yields.  *)
(* SpecSim : one run of the simulation loop, animated (_simulate_frames,   *)
(*           _apply_collisions, _apply_damage, _build_ranking) or          *)
(*           non-visual (run_fight).  Positions are abstracted to the set  *)
(*           of pairs in contact at each step.                             *)
(***************************************************************************)
EXTENDS Integers, Sequences, FiniteSets, TLC

\* ------------------------------------------------------------------ bounds
MaxRoster == 2      \* longest roster handed to a run in Spec
MaxRuns == 2        \* runs that reach the stores in one behaviour of Spec
MaxEvents == 1      \* damage events of one run in Spec
MaxSimFighters == 2 \* longest roster of one animated run in SpecSim
MaxFightRoster == 3 \* longest roster of one non-visual run in SpecSim
MaxFrames == 30     \* simulation steps of the animated loop explored in SpecSim
MaxVideoRuns == 11  \* animated runs in one behaviour of SpecVideos
MaxStatsRoster == 3 \* longest ranking handed to the stats functions in SpecStats
MaxStatsEvents == 2 \* damage events behind one damage log in SpecStats
MaxStatsCalls == 2  \* calls of the stats functions in one behaviour of SpecStats
MaxLegacyFighters == 3 \* longest roster of one legacy animated run in SpecLegacy
MaxLegacyFrames == 4 \* step cap of the legacy loop in SpecLegacy (max_frames)
MaxLateSteps == 3   \* steps explored at the end of a three-fighter run in SpecLate
MaxCrowd == 52      \* longest roster handed to run() in SpecSetup

\* ------------------------------------------------------------- program data
max_fighters == 50
DEFAULT_HEALTH == 100
fps == 30
win_hold_seconds == 5
None == -1          \* death_frame of a sprite that was never eliminated

Max(x, y) == IF x >= y THEN x ELSE y
Min(x, y) == IF x <= y THEN x ELSE y

\* str.strip() on the usernames of the model: blank names become empty
Strip(u) == IF u \in {"", " "} THEN "" ELSE u

\* ----------------------------------------------------------------- mappings
EmptyMap == [k \in {} |-> 0]
Get(m, k, default) == IF k \in DOMAIN m THEN m[k] ELSE default
Put(m, k, v) == [x \in (DOMAIN m) \cup {k} |-> IF x = k THEN v ELSE m[x]]
Pop(m, k) == [x \in (DOMAIN m) \ {k} |-> m[x]]

\* ---------------------------------------------------------------- documents
\* A document on disk is missing, unreadable, or holds a value.
MissingDoc(default) == [st |-> "missing", val |-> default]
CorruptDoc(default) == [st |-> "corrupt", val |-> default]

Exists(doc) == doc.st # "missing"

load_json(doc, default) == IF doc.st = "ok" THEN doc.val ELSE default

\* load_json(path, None) is not None
LoadsNotNone(doc) == doc.st = "ok"

save_json(data) == [st |-> "ok", val |-> data]

\* a write cut short after open(path, "w") truncated the file
save_json_interrupted(default) == CorruptDoc(default)

Unlink_bug(default) == save_json(default)

Unlink(default) == MissingDoc(default)

\* ------------------------------------------------------------- score ledger
ZeroEntry == [points |-> 0, runs |-> 0]

points_awarded_bug(total, order) == Max(0, total - order + 1)

points_awarded(total, order) ==
    LET base == Max(0, total - order + 1)
    IN  IF order = 1 THEN base + 1 ELSE base

RECURSIVE ScoreboardLoop(_, _, _)
ScoreboardLoop(ranking, k, scoreboard) ==
    IF k > Len(ranking) THEN scoreboard
    ELSE LET fighter == ranking[k]
             username == Strip(fighter.username)
             entry == Get(scoreboard, username, ZeroEntry)
             upd == [points |-> entry.points + points_awarded(Len(ranking), fighter.order),
                     runs |-> entry.runs + 1]
         IN  IF username = ""
             THEN ScoreboardLoop(ranking, k + 1, scoreboard)
             ELSE ScoreboardLoop(ranking, k + 1, Put(scoreboard, username, upd))

update_scoreboard(ranking, doc) ==
    save_json(ScoreboardLoop(ranking, 1, load_json(doc, EmptyMap)))

revert_points_bug(total, order) == Max(0, total - order + 1)

revert_points(total, order) ==
    LET base == Max(0, total - order + 1)
    IN  IF order = 1 THEN base + 1 ELSE base

RECURSIVE RevertScoreboardLoop(_, _, _)
RevertScoreboardLoop(ranking, k, scoreboard) ==
    IF k > Len(ranking) THEN scoreboard
    ELSE LET fighter == ranking[k]
             username == Strip(fighter.username)
             entry == Get(scoreboard, username, ZeroEntry)
             upd == [points |-> Max(0, entry.points - revert_points(Len(ranking), fighter.order)),
                     runs |-> Max(0, entry.runs - 1)]
         IN  IF username = ""
             THEN RevertScoreboardLoop(ranking, k + 1, scoreboard)
             ELSE IF upd.points = 0 /\ upd.runs = 0
                  THEN RevertScoreboardLoop(ranking, k + 1, Pop(scoreboard, username))
                  ELSE RevertScoreboardLoop(ranking, k + 1, Put(scoreboard, username, upd))

\* ------------------------------------------------- ordered dicts of targets
\* damage_to and the per-attacker part of the damage log are dicts whose
\* insertion order decides max(); they are sequences of [opp, damage, hits].
NoInfo(key) == [opp |-> key, damage |-> 0, hits |-> 0]

DictIndex(d, key) ==
    IF \E k \in 1..Len(d) : d[k].opp = key
    THEN CHOOSE k \in 1..Len(d) : d[k].opp = key
    ELSE 0

DictGet(d, key) == IF DictIndex(d, key) = 0 THEN NoInfo(key) ELSE d[DictIndex(d, key)]

DictSet(d, key, info) ==
    IF DictIndex(d, key) = 0 THEN Append(d, info)
    ELSE [d EXCEPT ![DictIndex(d, key)] = info]

DictPop(d, key) == SelectSeq(d, LAMBDA info : info.opp # key)

DictKeys(d) == {d[k].opp : k \in 1..Len(d)}

RECURSIVE SumDamage(_, _)
SumDamage(d, k) == IF k > Len(d) THEN 0 ELSE d[k].damage + SumDamage(d, k + 1)

RECURSIVE SumHits(_, _)
SumHits(d, k) == IF k > Len(d) THEN 0 ELSE d[k].hits + SumHits(d, k + 1)

\* --------------------------------------------------------------- damage log
_record_damage(log, attacker, defender, amount) ==
    IF attacker = "" \/ defender = "" THEN log
    ELSE LET targets == Get(log, attacker, <<>>)
             info == DictGet(targets, defender)
         IN  Put(log, attacker,
                 DictSet(targets, defender,
                         [opp |-> defender, damage |-> info.damage + amount,
                          hits |-> info.hits + 1]))

\* ---------------------------------------------------------- damage scaling
min_damage == 5
max_damage == 14
collision_cooldown_frames == 6

\* Python round(): to nearest, halves to even; num >= 0, den > 0
RoundHalfEven(num, den) ==
    LET q == num \div den
        r == num % den
    IN  IF 2 * r < den THEN q
        ELSE IF 2 * r > den THEN q + 1
        ELSE IF q % 2 = 0 THEN q ELSE q + 1

\* max(1, int(round(base * _damage_scale(alive_count)))) with
\* early_damage_scale = 1/2 and late_damage_scale = 1:
\* scale = 1/2 + (1 - ratio)/2, ratio = alive/starting clamped to [0, 1]
ScaledDamage(base, alive_count, starting_fighters) ==
    LET s == Max(1, starting_fighters)
        a == Max(0, Min(alive_count, s))
    IN  Max(1, RoundHalfEven(base * (2 * s - a), 2 * s))

\* -------------------------------------------------------------------- stats
DefaultStats == [matches |-> 0, wins |-> 0, total_damage_dealt |-> 0,
                 total_hits |-> 0, damage_to |-> <<>>,
                 biggest_rival |-> "", last_played |-> 0]

BiggestRival_bug(dmg_to) == IF Len(dmg_to) = 0 THEN "" ELSE dmg_to[1].opp

\* max(dmg_to.items(), key=damage)[0]: the first entry of maximal damage
BiggestRival(dmg_to) ==
    IF Len(dmg_to) = 0 THEN ""
    ELSE LET best == CHOOSE k \in 1..Len(dmg_to) :
                        /\ \A m \in 1..Len(dmg_to) : dmg_to[m].damage <= dmg_to[k].damage
                        /\ \A m \in 1..(k - 1) : dmg_to[m].damage < dmg_to[k].damage
         IN  dmg_to[best].opp

RecomputeRivals(stats) ==
    [u \in DOMAIN stats |->
        [stats[u] EXCEPT !.biggest_rival = BiggestRival(stats[u].damage_to)]]

RECURSIVE StatsRankingLoop(_, _, _, _)
StatsRankingLoop(ranking, k, stats, now_ts) ==
    IF k > Len(ranking) THEN stats
    ELSE LET fighter == ranking[k]
             username == Strip(fighter.username)
             entry == Get(stats, username, DefaultStats)
             upd == [entry EXCEPT !.matches = @ + 1,
                                  !.wins = IF fighter.order = 1 THEN @ + 1 ELSE @,
                                  !.last_played = now_ts]
         IN  IF username = ""
             THEN StatsRankingLoop(ranking, k + 1, stats, now_ts)
             ELSE StatsRankingLoop(ranking, k + 1, Put(stats, username, upd), now_ts)

RECURSIVE UpdateTargets_bug(_, _, _)
UpdateTargets_bug(entry, targets, k) ==
    IF k > Len(targets) THEN entry
    ELSE LET info == targets[k]
         IN  UpdateTargets_bug([entry EXCEPT !.total_damage_dealt = @ + info.damage,
                                             !.total_hits = @ + info.hits,
                                             !.damage_to = DictSet(@, info.opp, info)],
                               targets, k + 1)

RECURSIVE UpdateTargets(_, _, _)
UpdateTargets(entry, targets, k) ==
    IF k > Len(targets) THEN entry
    ELSE LET info == targets[k]
             prev == DictGet(entry.damage_to, info.opp)
             upd == [opp |-> info.opp, damage |-> prev.damage + info.damage,
                     hits |-> prev.hits + info.hits]
         IN  UpdateTargets([entry EXCEPT !.total_damage_dealt = @ + info.damage,
                                         !.total_hits = @ + info.hits,
                                         !.damage_to = DictSet(@, info.opp, upd)],
                           targets, k + 1)

UpdateAttackers(stats, damage_log) ==
    [u \in (DOMAIN stats) \cup (DOMAIN damage_log) |->
        IF u \in DOMAIN damage_log
        THEN UpdateTargets(Get(stats, u, DefaultStats), damage_log[u], 1)
        ELSE stats[u]]

update_stats_with_battle(ranking, damage_log, doc, now_ts) ==
    save_json(RecomputeRivals(
        UpdateAttackers(StatsRankingLoop(ranking, 1, load_json(doc, EmptyMap), now_ts),
                        damage_log)))

RECURSIVE RevertRankingLoop(_, _, _)
RevertRankingLoop(ranking, k, stats) ==
    IF k > Len(ranking) THEN stats
    ELSE LET fighter == ranking[k]
             username == Strip(fighter.username)
         IN  IF username = "" \/ username \notin DOMAIN stats
             THEN RevertRankingLoop(ranking, k + 1, stats)
             ELSE RevertRankingLoop(ranking, k + 1,
                      Put(stats, username,
                          [stats[username] EXCEPT
                              !.matches = Max(0, @ - 1),
                              !.wins = IF fighter.order = 1 THEN Max(0, @ - 1) ELSE @]))

RECURSIVE RevertTargets_bug(_, _, _)
RevertTargets_bug(entry, targets, k) ==
    IF k > Len(targets) THEN entry
    ELSE LET info == targets[k]
             prev == DictGet(entry.damage_to, info.opp)
             upd == [opp |-> info.opp, damage |-> Max(0, prev.damage - info.damage),
                     hits |-> Max(0, prev.hits - info.hits)]
         IN  RevertTargets_bug(
                 [entry EXCEPT !.total_damage_dealt = Max(0, @ - info.damage),
                               !.damage_to = IF upd.damage = 0 /\ upd.hits = 0
                                             THEN DictPop(@, info.opp)
                                             ELSE DictSet(@, info.opp, upd)],
                 targets, k + 1)

RECURSIVE RevertTargets(_, _, _)
RevertTargets(entry, targets, k) ==
    IF k > Len(targets) THEN entry
    ELSE LET info == targets[k]
             prev == DictGet(entry.damage_to, info.opp)
             upd == [opp |-> info.opp, damage |-> Max(0, prev.damage - info.damage),
                     hits |-> Max(0, prev.hits - info.hits)]
         IN  RevertTargets(
                 [entry EXCEPT !.total_damage_dealt = Max(0, @ - info.damage),
                               !.total_hits = Max(0, @ - info.hits),
                               !.damage_to = IF upd.damage = 0 /\ upd.hits = 0
                                             THEN DictPop(@, info.opp)
                                             ELSE DictSet(@, info.opp, upd)],
                 targets, k + 1)

RevertAttackers(stats, damage_log) ==
    [u \in DOMAIN stats |->
        IF u \in DOMAIN damage_log
        THEN RevertTargets(stats[u], damage_log[u], 1)
        ELSE stats[u]]

revert_stats_with_battle(ranking, damage_log, doc) ==
    save_json(RecomputeRivals(
        RevertAttackers(RevertRankingLoop(ranking, 1, load_json(doc, EmptyMap)),
                        damage_log)))

\* ------------------------------------------------------------ battle videos
\* battle_<n>.mp4 files are held as the set of their numbers n.
_next_battle_number(numbers) ==
    IF numbers = {} THEN 1
    ELSE (CHOOSE n \in numbers : \A m \in numbers : m <= n) + 1

RECURSIVE Digits(_)
Digits(n) == IF n < 10 THEN <<n>> ELSE Append(Digits(n \div 10), n % 10)

\* order of the file names "battle_<m>.mp4" and "battle_<n>.mp4" as strings:
\* the first differing character decides, and "." sorts before every digit
RECURSIVE SeqLess(_, _, _)
SeqLess(s, t, k) ==
    IF k > Len(s) THEN k <= Len(t)
    ELSE IF k > Len(t) THEN FALSE
    ELSE IF s[k] # t[k] THEN s[k] < t[k]
    ELSE SeqLess(s, t, k + 1)

PathLess(m, n) == SeqLess(Digits(m), Digits(n), 1)

\* sorted(candidates)[-1]
LastCandidate(candidates) ==
    CHOOSE n \in candidates : \A m \in candidates \ {n} : PathLess(m, n)

\* ------------------------------------------------------- outcome of one run
Perms(n) == {p \in [1..n -> 1..n] : \A i, j \in 1..n : i # j => p[i] # p[j]}

SeqsUpTo(S, len) == UNION {[1..k -> S] : k \in 0..len}

\* _create_sprites: followers[:max_fighters], a missing username is "unknown"
SpriteNames(followers) ==
    [k \in 1..Min(Len(followers), max_fighters) |->
        IF followers[k] = "" THEN "unknown" ELSE followers[k]]

\* the entries the stores read from a ranking: username and order
RankingOf(usernames, perm) ==
    [k \in 1..Len(usernames) |-> [username |-> usernames[perm[k]], order |-> k]]

\* damage amounts of one event: the smallest and largest draw of the opening phase
EventDamages(n) == {ScaledDamage(min_damage, n, n), ScaledDamage(max_damage, n, n)}

Events(n) ==
    {e \in [i : 1..n, j : 1..n, damage_a : EventDamages(n), damage_b : EventDamages(n)] :
        e.i < e.j}

\* _apply_damage records defender-to-attacker first, then attacker-to-defender
RECURSIVE DamageLogOf(_, _, _, _)
DamageLogOf(usernames, events, k, log) ==
    IF k > Len(events) THEN log
    ELSE LET e == events[k]
             a == usernames[e.i]
             b == usernames[e.j]
         IN  DamageLogOf(usernames, events, k + 1,
                 _record_damage(_record_damage(log, b, a, e.damage_b), a, b, e.damage_a))

\* ==================================================================== state
VARIABLES
    scoreboard,         \* Score Ledger document (settings.scoreboard_path)
    stats,              \* Stats document (settings.stats_path)
    last_run,           \* last-run ranking document (settings.last_run_path)
    last_run_damage,    \* last-run damage log document
    board_backup,       \* last_run_scoreboard_backup document
    stats_backup,       \* last_run_stats_backup document
    videos,             \* numbers of the battle_*.mp4 files in settings.base_battles
    legacy_videos,      \* numbers of the battle_*.mp4 files in the legacy "battles" directory
    clock,              \* runs performed so far; int(time.time()) of the next run is clock + 1
    hist,               \* the latest operation and how it ended
    pre_board,          \* Score Ledger mapping just before the most recent run
    pre_stats           \* Stats mapping just before the most recent run

storeVars == <<scoreboard, stats, last_run, last_run_damage, board_backup,
               stats_backup, videos, legacy_videos, clock, hist, pre_board, pre_stats>>

VARIABLES
    sim_mode,           \* "video": VideoFightSimulator, "fight": run_fight, "idle": no run
    pc,                 \* "loop", "ended" (the animated loop has exited), "done"
    sprites,            \* video: the Sprite list; fight: the fighters still in the list
    starting_fighters,  \* VideoFightSimulator.starting_fighters
    frame_idx,          \* frame_idx of _simulate_frames; fight: passes of the while loop so far
    collision_memory,   \* pair of sprite indices -> frame of its latest damage
    run_damage_log,     \* VideoFightSimulator.damage_log
    total_frames,       \* len(frames) when the animated loop has exited
    run_ranking,        \* fight: eliminated fighters so far; when done: the ranking
    contact_log,        \* per pair: its latest damage event and the contact since then
    roster,             \* the followers the run was started with
    winner_sprite       \* idx of the sprite _simulate_frames returns, 0 for None

simVars == <<sim_mode, pc, sprites, starting_fighters, frame_idx, collision_memory,
             run_damage_log, total_frames, run_ranking, contact_log, roster,
             winner_sprite>>

vars == <<storeVars, simVars>>

SimIdle ==
    /\ sim_mode = "idle"
    /\ pc = "done"
    /\ sprites = <<>>
    /\ starting_fighters = 0
    /\ frame_idx = 0
    /\ collision_memory = EmptyMap
    /\ run_damage_log = EmptyMap
    /\ total_frames = 0
    /\ run_ranking = <<>>
    /\ contact_log = EmptyMap
    /\ roster = <<>>
    /\ winner_sprite = 0

\* The roster provider hands over distinct usernames in sorted order: a run
\* takes the first k followers, or a single follower without a username.
Followers == <<"a", "b", "c", "d">>

Rosters == {SubSeq(Followers, 1, k) : k \in 0..Min(MaxRoster, Len(Followers))} \cup {<<"">>}

InitHist == [op |-> "init", ok |-> TRUE, err |-> "", prev_op |-> "init", prev_ok |-> TRUE,
             clean |-> TRUE, n |-> 0, backup |-> "none", prev_backup |-> "none",
             had_board_backup |-> FALSE, had_stats_backup |-> FALSE]

InitStore ==
    /\ scoreboard = MissingDoc(EmptyMap)
    /\ stats = MissingDoc(EmptyMap)
    /\ last_run = MissingDoc(<<>>)
    /\ last_run_damage = MissingDoc(EmptyMap)
    /\ board_backup = MissingDoc(EmptyMap)
    /\ stats_backup = MissingDoc(EmptyMap)
    /\ videos = {}
    /\ legacy_videos = {1}
    /\ clock = 0
    /\ hist = InitHist
    /\ pre_board = EmptyMap
    /\ pre_stats = EmptyMap

\* what the next operation records about its predecessor
Follow(op, ok, err) ==
    [InitHist EXCEPT !.op = op, !.ok = ok, !.err = err,
                     !.prev_op = hist.op, !.prev_ok = hist.ok, !.prev_backup = hist.backup,
                     !.clean = hist.clean /\ hist.op # "revert" /\ hist.ok]

\* ---------------------------------------------------------------- run steps
\* _backup_run_state: the try block may fail before the first write ("failed"),
\* between the two writes ("partial"), or not at all ("ok")
BackupOutcomes == {"ok", "partial", "failed"}

BackupBoard(outcome, board, old) ==
    IF outcome \in {"ok", "partial"} THEN save_json(load_json(board, EmptyMap)) ELSE old

BackupStats_bug(outcome, st, old) == old

BackupStats(outcome, st, old) ==
    IF outcome = "ok" THEN save_json(load_json(st, EmptyMap)) ELSE old

\* VideoFightSimulator.run with no followers: ValueError before anything is touched
VideoRunEmpty ==
    /\ hist' = Follow("video", FALSE, "No followers provided for the fight.")
    /\ UNCHANGED <<scoreboard, stats, last_run, last_run_damage, board_backup,
                   stats_backup, videos, legacy_videos, clock, pre_board, pre_stats>>
    /\ UNCHANGED simVars

\* VideoFightSimulator.run: simulate, write the video, snapshot, update the
\* ledger and the stats, persist damage log and ranking
VideoRun ==
    /\ clock < MaxRuns
    /\ \E followers \in Rosters \ {<<>>} :
       \E backup \in BackupOutcomes :
       LET usernames == SpriteNames(followers)
           n == Len(usernames)
       IN  \E perm \in Perms(n), events \in SeqsUpTo(Events(n), MaxEvents) :
           LET ranking == RankingOf(usernames, perm)
               run_log == DamageLogOf(usernames, events, 1, EmptyMap)
           IN  /\ videos' = videos \cup {_next_battle_number(videos)}
               /\ board_backup' = BackupBoard(backup, scoreboard, board_backup)
               /\ stats_backup' = BackupStats(backup, stats, stats_backup)
               /\ scoreboard' = update_scoreboard(ranking, scoreboard)
               /\ stats' = update_stats_with_battle(ranking, run_log, stats, clock + 1)
               /\ last_run_damage' = save_json(run_log)
               /\ last_run' = save_json(ranking)
               /\ hist' = [Follow("video", TRUE, "") EXCEPT !.backup = backup, !.n = n]
               /\ pre_board' = load_json(scoreboard, EmptyMap)
               /\ pre_stats' = load_json(stats, EmptyMap)
    /\ clock' = clock + 1
    /\ UNCHANGED legacy_videos
    /\ UNCHANGED simVars

\* run_and_record: run_fight, update the ledger, persist the ranking
RunAndRecord ==
    /\ clock < MaxRuns
    /\ \E followers \in Rosters, cut \in BOOLEAN :
       \E perm \in Perms(Len(followers)) :
       LET ranking == RankingOf(followers, perm)
       IN  /\ scoreboard' = update_scoreboard(ranking, scoreboard)
           /\ last_run' = IF cut THEN save_json_interrupted(<<>>) ELSE save_json(ranking)
           /\ hist' = [Follow("record", ~cut, IF cut THEN "killed" ELSE "")
                          EXCEPT !.n = Len(followers)]
           /\ pre_board' = load_json(scoreboard, EmptyMap)
           /\ pre_stats' = load_json(stats, EmptyMap)
    /\ clock' = clock + 1
    /\ UNCHANGED <<stats, last_run_damage, board_backup, stats_backup, videos, legacy_videos>>
    /\ UNCHANGED simVars

\* a run whose update_scoreboard dies inside save_json, after open(path, "w")
\* truncated the ledger file: the exception ends the run there.  The animated
\* run has by then written its video and its snapshot; run_and_record nothing.
LedgerWriteFails ==
    /\ clock < MaxRuns
    /\ scoreboard' = save_json_interrupted(EmptyMap)
    /\ \/ /\ \E backup \in BackupOutcomes :
             /\ board_backup' = BackupBoard(backup, scoreboard, board_backup)
             /\ stats_backup' = BackupStats(backup, stats, stats_backup)
             /\ hist' = [Follow("video", FALSE, "ledger write failed")
                            EXCEPT !.backup = backup]
          /\ videos' = videos \cup {_next_battle_number(videos)}
       \/ /\ hist' = Follow("record", FALSE, "ledger write failed")
          /\ UNCHANGED <<board_backup, stats_backup, videos>>
    /\ pre_board' = load_json(scoreboard, EmptyMap)
    /\ pre_stats' = load_json(stats, EmptyMap)
    /\ clock' = clock + 1
    /\ UNCHANGED <<stats, last_run, last_run_damage, legacy_videos>>
    /\ UNCHANGED simVars

\* ------------------------------------------------------------------- revert
RevertBoard(board, bbackup, sbackup, ranking) ==
    IF LoadsNotNone(bbackup) THEN save_json(bbackup.val)
    ELSE IF LoadsNotNone(sbackup) THEN board
    ELSE save_json(RevertScoreboardLoop(ranking, 1, load_json(board, EmptyMap)))

RevertStats(st, bbackup, sbackup, ranking, damage) ==
    IF LoadsNotNone(sbackup) THEN save_json(sbackup.val)
    ELSE IF LoadsNotNone(bbackup) THEN st
    ELSE IF load_json(damage, EmptyMap) # EmptyMap
         THEN revert_stats_with_battle(ranking, load_json(damage, EmptyMap), st)
         ELSE st

\* "if not ranking" on the loaded last-run ranking
NothingToRevert_bug(ranking) == FALSE

NothingToRevert(ranking) == ranking = <<>>

\* candidates[-1].unlink() over base_battles, else over the legacy directory
RevertVideos(vids, legacy) ==
    IF vids # {} THEN <<vids \ {LastCandidate(vids)}, legacy>>
    ELSE IF legacy # {} THEN <<vids, legacy \ {LastCandidate(legacy)}>>
    ELSE <<vids, legacy>>

RevertNoRun ==
    /\ ~Exists(last_run)
    /\ hist' = Follow("revert", FALSE, "No last run data found. Run a battle first.")
    /\ UNCHANGED <<scoreboard, stats, last_run, last_run_damage, board_backup,
                   stats_backup, videos, legacy_videos, clock, pre_board, pre_stats>>
    /\ UNCHANGED simVars

RevertEmpty ==
    /\ Exists(last_run)
    /\ NothingToRevert(load_json(last_run, <<>>))
    /\ hist' = Follow("revert", FALSE, "Last run data is empty; nothing to revert.")
    /\ UNCHANGED <<scoreboard, stats, last_run, last_run_damage, board_backup,
                   stats_backup, videos, legacy_videos, clock, pre_board, pre_stats>>
    /\ UNCHANGED simVars

Revert ==
    /\ Exists(last_run)
    /\ ~NothingToRevert(load_json(last_run, <<>>))
    /\ LET ranking == load_json(last_run, <<>>)
       IN  /\ scoreboard' = RevertBoard(scoreboard, board_backup, stats_backup, ranking)
           /\ stats' = RevertStats(stats, board_backup, stats_backup, ranking, last_run_damage)
           /\ hist' = [Follow("revert", TRUE, "")
                          EXCEPT !.had_board_backup = LoadsNotNone(board_backup),
                                 !.had_stats_backup = LoadsNotNone(stats_backup),
                                 !.n = Len(ranking)]
    /\ videos' = RevertVideos(videos, legacy_videos)[1]
    /\ legacy_videos' = RevertVideos(videos, legacy_videos)[2]
    /\ last_run' = Unlink(<<>>)
    /\ last_run_damage' = Unlink(EmptyMap)
    /\ board_backup' = Unlink(EmptyMap)
    /\ stats_backup' = Unlink(EmptyMap)
    /\ UNCHANGED <<clock, pre_board, pre_stats>>
    /\ UNCHANGED simVars

\* ======================================================== one simulated run
sprite_health == 100
fight_min_damage == 5
fight_max_damage == 30

\* random.randint draws, taken at the two ends of their range; of one
\* collision's two draws (damage_a_base, damage_b_base) the second is kept at
\* the top, which leaves the outcomes "both fall in the same step" and "one
\* outlasts the other" and keeps the health values few
DamageBases == {min_damage, max_damage}
DamageDraws == {draw \in DamageBases \X DamageBases : draw[2] = max_damage}
FightDamages_bug == {1, fight_max_damage}

FightDamages == {fight_min_damage, fight_max_damage}

\* idx is the identity of the object (its place in the roster)
NewSprite(username, idx, health) ==
    [username |-> username, health |-> health, alive |-> TRUE,
     death_frame |-> None, idx |-> idx]

SimRosters == {SubSeq(Followers, 1, k) : k \in 1..Min(MaxSimFighters, Len(Followers))}

FightRosters == {SubSeq(Followers, 1, k) : k \in 0..Min(MaxFightRoster, Len(Followers))}

AliveIndices(sp) == {i \in 1..Len(sp) : sp[i].alive}

\* ---- _apply_collisions
CooldownOver_bug(frame, last_frame) == TRUE

CooldownOver(frame, last_frame) == frame - last_frame >= collision_cooldown_frames

SpritesAfterDamage_bug(sp, i, j, frame, alive_count, starting, draw) ==
    LET damage_a == ScaledDamage(draw[1], alive_count, starting)
        damage_b == ScaledDamage(draw[2], alive_count, starting)
        hit(s, amount) ==
            LET h == s.health - amount
            IN  IF h <= 0 /\ s.alive
                THEN [s EXCEPT !.health = h, !.alive = FALSE, !.death_frame = frame]
                ELSE [s EXCEPT !.health = h]
    IN  [sp EXCEPT ![i] = hit(sp[i], damage_b), ![j] = hit(sp[j], damage_a)]

\* _apply_damage on the sprites: both lose health, floored at zero, and a
\* sprite at zero is marked dead with the current frame
SpritesAfterDamage(sp, i, j, frame, alive_count, starting, draw) ==
    LET damage_a == ScaledDamage(draw[1], alive_count, starting)
        damage_b == ScaledDamage(draw[2], alive_count, starting)
        hit(s, amount) ==
            LET h == Max(0, s.health - amount)
            IN  IF h <= 0 /\ s.alive
                THEN [s EXCEPT !.health = h, !.alive = FALSE, !.death_frame = frame]
                ELSE [s EXCEPT !.health = h]
    IN  [sp EXCEPT ![i] = hit(sp[i], damage_b), ![j] = hit(sp[j], damage_a)]

LogAfterDamage_bug(log, sp, i, j, alive_count, starting, draw) ==
    _record_damage(log, sp[i].username, sp[j].username,
                   ScaledDamage(draw[1], alive_count, starting))

\* _apply_damage on the damage log: b -> a first, then a -> b
LogAfterDamage(log, sp, i, j, alive_count, starting, draw) ==
    LET damage_a == ScaledDamage(draw[1], alive_count, starting)
        damage_b == ScaledDamage(draw[2], alive_count, starting)
    IN  _record_damage(_record_damage(log, sp[j].username, sp[i].username, damage_b),
                       sp[i].username, sp[j].username, damage_a)

\* history of a pair: steps since its latest damage event (capped at the
\* cooldown), whether it was found colliding at every check since then, and
\* the same two facts as they stood when that latest event happened
ContactDamaged(clog, key) ==
    IF key \in DOMAIN clog
    THEN Put(clog, key, [since |-> 0, touching |-> TRUE,
                         gap |-> clog[key].since, unbroken |-> clog[key].touching])
    ELSE Put(clog, key, [since |-> 0, touching |-> TRUE, gap |-> 0, unbroken |-> FALSE])

ContactBroken(clog, key) ==
    IF key \in DOMAIN clog THEN Put(clog, key, [clog[key] EXCEPT !.touching = FALSE])
    ELSE clog

ContactTick(clog) ==
    [key \in DOMAIN clog |->
        [clog[key] EXCEPT !.since = Min(@ + 1, collision_cooldown_frames)]]

PairStep_bug(st, i, j, frame, total_alive, starting, contact, draw) ==
    LET key == <<i, j>>
    IN  IF key \notin contact
        THEN [st EXCEPT !.memory = Pop(@, key), !.clog = ContactBroken(@, key)]
        ELSE IF CooldownOver(frame, Get(st.memory, key, -999))
        THEN [sprites |-> SpritesAfterDamage(st.sprites, i, j, frame, total_alive,
                                             starting, draw[key]),
              memory |-> Put(st.memory, key, frame),
              log |-> LogAfterDamage(st.log, st.sprites, i, j, total_alive,
                                     starting, draw[key]),
              clog |-> ContactDamaged(st.clog, key)]
        ELSE st

\* the body of the double loop for the pair (i, j)
PairStep(st, i, j, frame, total_alive, starting, contact, draw) ==
    LET key == <<i, j>>
    IN  IF ~st.sprites[i].alive \/ ~st.sprites[j].alive THEN st
        ELSE IF key \notin contact
        THEN [st EXCEPT !.memory = Pop(@, key), !.clog = ContactBroken(@, key)]
        ELSE IF CooldownOver(frame, Get(st.memory, key, -999))
        THEN [sprites |-> SpritesAfterDamage(st.sprites, i, j, frame, total_alive,
                                             starting, draw[key]),
              memory |-> Put(st.memory, key, frame),
              log |-> LogAfterDamage(st.log, st.sprites, i, j, total_alive,
                                     starting, draw[key]),
              clog |-> ContactDamaged(st.clog, key)]
        ELSE st

RECURSIVE CollisionLoop(_, _, _, _, _, _, _, _)
CollisionLoop(st, i, j, frame, total_alive, starting, contact, draw) ==
    LET n == Len(st.sprites)
    IN  IF i >= n THEN st
        ELSE IF j > n
        THEN CollisionLoop(st, i + 1, i + 2, frame, total_alive, starting, contact, draw)
        ELSE CollisionLoop(PairStep(st, i, j, frame, total_alive, starting, contact, draw),
                           i, j + 1, frame, total_alive, starting, contact, draw)

_apply_collisions(st, frame, starting, contact, draw) ==
    CollisionLoop(st, 1, 2, frame, Cardinality(AliveIndices(st.sprites)),
                  starting, contact, draw)

AlivePairs(sp) == {key \in AliveIndices(sp) \X AliveIndices(sp) : key[1] < key[2]}

\* ---- _build_ranking
\* place of sprite i in sorted(alive, key=health): stable, counted from 0
HealthPlace(sp, i) ==
    Cardinality({j \in AliveIndices(sp) :
        sp[j].health < sp[i].health \/ (sp[j].health = sp[i].health /\ j < i)})

SurvivorFrames(sp, frames) ==
    IF Cardinality(AliveIndices(sp)) > 1
    THEN [i \in 1..Len(sp) |->
            IF sp[i].alive THEN [sp[i] EXCEPT !.death_frame = frames + HealthPlace(sp, i)]
            ELSE sp[i]]
    ELSE sp

MaxDeathFrame(sp) ==
    CHOOSE f \in {sp[i].death_frame : i \in 1..Len(sp)} :
        \A i \in 1..Len(sp) : sp[i].death_frame <= f

UnstampedFrames_bug(sp) == sp

\* sprites without a death frame get max_frame + 1, + 2, ... in roster order
UnstampedFrames(sp) ==
    [i \in 1..Len(sp) |->
        IF sp[i].death_frame = None
        THEN [sp[i] EXCEPT !.death_frame =
                 MaxDeathFrame(sp)
                 + Cardinality({j \in 1..i : sp[j].death_frame = None})]
        ELSE sp[i]]

\* place of sprite i in sorted(sprites, key=death_frame, reverse=True), which
\* keeps the roster order of equal keys
SortedPlace(sp, i) ==
    1 + Cardinality({j \in 1..Len(sp) :
        sp[j].death_frame > sp[i].death_frame
        \/ (sp[j].death_frame = sp[i].death_frame /\ j < i)})

SortedSprites(sp) ==
    [k \in 1..Len(sp) |-> sp[CHOOSE x \in 1..Len(sp) : SortedPlace(sp, x) = k]]

\* enumerate(sorted_sprites, start=1): the order of the k-th entry
EntryOrder_bug(k) == k - 1

EntryOrder(k) == k

RankingEntries(sorted_sprites) ==
    [k \in 1..Len(sorted_sprites) |->
        [username |-> sorted_sprites[k].username, order |-> EntryOrder(k),
         final_health |-> Max(0, sorted_sprites[k].health),
         idx |-> sorted_sprites[k].idx]]

_build_ranking(sp, frames) ==
    RankingEntries(SortedSprites(UnstampedFrames(SurvivorFrames(sp, frames))))

\* ---- _simulate_frames: one pass of the while loop
SimStep ==
    /\ sim_mode = "video"
    /\ pc = "loop"
    /\ frame_idx < MaxFrames
    /\ \E contact \in SUBSET AlivePairs(sprites) :
       \E draw \in [contact -> DamageDraws] :
       LET st == _apply_collisions(
                     [sprites |-> sprites, memory |-> collision_memory,
                      log |-> run_damage_log, clog |-> contact_log],
                     frame_idx, starting_fighters, contact, draw)
           alive == AliveIndices(st.sprites)
       IN  /\ collision_memory' = st.memory
           /\ run_damage_log' = st.log
           /\ contact_log' = ContactTick(st.clog)
           /\ IF Cardinality(alive) <= 1
              THEN /\ sprites' = [i \in 1..Len(st.sprites) |->
                                     [st.sprites[i] EXCEPT !.alive = FALSE]]
                   /\ total_frames' = frame_idx + fps * win_hold_seconds
                   /\ winner_sprite' = IF alive = {} THEN 0
                                       ELSE CHOOSE i \in alive : \A j \in alive : i <= j
                   /\ frame_idx' = frame_idx
                   /\ pc' = "ended"
              ELSE /\ sprites' = st.sprites
                   /\ total_frames' = total_frames
                   /\ winner_sprite' = winner_sprite
                   /\ frame_idx' = frame_idx + 1
                   /\ pc' = "loop"
    /\ UNCHANGED <<sim_mode, starting_fighters, run_ranking, roster>>
    /\ UNCHANGED storeVars

\* VideoFightSimulator.run after the loop: ranking = _build_ranking(sprites, len(frames))
BuildRanking ==
    /\ sim_mode = "video"
    /\ pc = "ended"
    /\ run_ranking' = _build_ranking(sprites, total_frames)
    /\ sprites' = UnstampedFrames(SurvivorFrames(sprites, total_frames))
    /\ pc' = "done"
    /\ UNCHANGED <<sim_mode, starting_fighters, frame_idx, collision_memory,
                   run_damage_log, total_frames, contact_log, roster, winner_sprite>>
    /\ UNCHANGED storeVars

\* ---- run_fight
RemoveAt(seq, k) == [m \in 1..(Len(seq) - 1) |-> IF m < k THEN seq[m] ELSE seq[m + 1]]

Reverse(seq) == [k \in 1..Len(seq) |-> seq[Len(seq) + 1 - k]]

\* one pass of "while len(fighters) > 1"
FightExchange ==
    /\ sim_mode = "fight"
    /\ pc = "loop"
    /\ Len(sprites) > 1
    /\ \E i, j \in 1..Len(sprites) :
       \E damage_a, damage_b \in FightDamages :
       /\ i # j
       /\ LET hit == [sprites EXCEPT ![i].health = @ - damage_b, ![j].health = @ - damage_a]
              hi == Max(i, j)
              lo == Min(i, j)
              out_hi == hit[hi].health <= 0
              out_lo == hit[lo].health <= 0
              left_hi == IF out_hi THEN RemoveAt(hit, hi) ELSE hit
          IN  /\ sprites' = IF out_lo THEN RemoveAt(left_hi, lo) ELSE left_hi
              /\ run_ranking' = run_ranking
                                  \o (IF out_hi THEN <<hit[hi]>> ELSE <<>>)
                                  \o (IF out_lo THEN <<hit[lo]>> ELSE <<>>)
    /\ frame_idx' = frame_idx + 1
    /\ UNCHANGED <<sim_mode, pc, starting_fighters, collision_memory,
                   run_damage_log, total_frames, contact_log, roster, winner_sprite>>
    /\ UNCHANGED storeVars

\* the survivor is appended, the list reversed and the orders handed out
FightFinish ==
    /\ sim_mode = "fight"
    /\ pc = "loop"
    /\ Len(sprites) <= 1
    /\ LET final == Reverse(run_ranking \o sprites)
       IN  run_ranking' = [k \in 1..Len(final) |->
                              [username |-> final[k].username, order |-> k,
                               final_health |-> final[k].health, idx |-> final[k].idx]]
    /\ pc' = "done"
    /\ UNCHANGED <<sim_mode, sprites, starting_fighters, frame_idx, collision_memory,
                   run_damage_log, total_frames, contact_log, roster, winner_sprite>>
    /\ UNCHANGED storeVars

\* ============================================ the first step with positions
\* Three sprites on one horizontal line (equal y, equal vy), so that every
\* collision normal is (+-1, 0) and the arithmetic of _resolve_collision is
\* exact.  Lengths are in eighths of a pixel, velocities in 1/1600 pixel per
\* step; a roster of three starts at sprite_size 140.
LengthUnit == 8
SpeedUnit == 1600
arena_width == 1080
arena_sprite_size == 140
spawn_margin == 80

ArenaSize == arena_sprite_size * LengthUnit

\* x = random.uniform(margin, width - margin - sprite_size), at a few values
\* that put neighbours just inside or just outside one diameter, and at three
\* values next to the left margin, where the sprites spawn on top of each other
SpawnXs == {80, 81, 82, 400, 530, 544, 660, 690}

\* vx = random.choice(speeds), at the two ends of the range
SpawnVxs == {-8, 8}

Abs(x) == IF x < 0 THEN -x ELSE x

_clamp_sprite(s) ==
    LET left == IF s.x < 0 THEN [s EXCEPT !.x = 0, !.vx = Abs(@)] ELSE s
    IN  IF left.x + ArenaSize > arena_width * LengthUnit
        THEN [left EXCEPT !.x = arena_width * LengthUnit - ArenaSize, !.vx = -Abs(@)]
        ELSE left

_collides(sp, i, j) == Abs(sp[i].x - sp[j].x) < ArenaSize

\* the two are pushed apart by half the overlap each along the normal; when
\* they were approaching, the impulse -(1 + restitution) * closing_speed / 2
\* = -(37/40) * closing_speed is applied and both are clamped to the arena
_resolve_collision(sp, i, j) ==
    LET dx == sp[i].x - sp[j].x
        dist == Abs(dx)
        nx == IF dx < 0 THEN -1 ELSE 1
        overlap == (ArenaSize - dist) \div 2
        apart == [sp EXCEPT ![i].x = @ + nx * overlap, ![j].x = @ - nx * overlap]
        closing_speed == (sp[i].vx - sp[j].vx) * nx
        impulse == (37 * (-closing_speed)) \div 40
    IN  IF dist >= ArenaSize \/ dist = 0 THEN sp
        ELSE IF closing_speed >= 0 THEN apart
        ELSE [apart EXCEPT
                 ![i] = _clamp_sprite([@ EXCEPT !.vx = @ + impulse * nx]),
                 ![j] = _clamp_sprite([@ EXCEPT !.vx = @ - impulse * nx])]

\* the body of the double loop of _apply_collisions, contact decided by the
\* positions as they are when the pair is reached
ArenaPairStep(st, i, j, frame, total_alive, starting, draw) ==
    LET hit == st.sprites[i].alive /\ st.sprites[j].alive /\ _collides(st.sprites, i, j)
        after == PairStep(st, i, j, frame, total_alive, starting,
                          IF hit THEN {<<i, j>>} ELSE {}, draw)
    IN  IF hit THEN [after EXCEPT !.sprites = _resolve_collision(@, i, j)] ELSE after

RECURSIVE ArenaLoop(_, _, _, _, _, _, _)
ArenaLoop(st, i, j, frame, total_alive, starting, draw) ==
    LET n == Len(st.sprites)
    IN  IF i >= n THEN st
        ELSE IF j > n
        THEN ArenaLoop(st, i + 1, i + 2, frame, total_alive, starting, draw)
        ELSE ArenaLoop(ArenaPairStep(st, i, j, frame, total_alive, starting, draw),
                       i, j + 1, frame, total_alive, starting, draw)

AllPairs(n) == {key \in (1..n) \X (1..n) : key[1] < key[2]}

\* _move_sprites: the speeds of the model lie inside the speed bounds of three
\* fighters, so _enforce_speed_bounds leaves them alone
ArenaMove ==
    /\ sim_mode = "arena"
    /\ pc = "move"
    /\ sprites' = [i \in 1..Len(sprites) |->
                      IF sprites[i].alive
                      THEN _clamp_sprite([sprites[i] EXCEPT !.x =
                                         @ + ((sprites[i].vx * LengthUnit) \div SpeedUnit)])
                      ELSE sprites[i]]
    /\ pc' = "collide"
    /\ UNCHANGED <<sim_mode, starting_fighters, frame_idx, collision_memory,
                   run_damage_log, total_frames, run_ranking, contact_log, roster,
                   winner_sprite>>
    /\ UNCHANGED storeVars

ArenaCollisions ==
    /\ sim_mode = "arena"
    /\ pc = "collide"
    /\ \E draw \in [AllPairs(Len(sprites)) -> DamageDraws] :
       LET st == ArenaLoop([sprites |-> sprites, memory |-> collision_memory,
                            log |-> run_damage_log, clog |-> contact_log],
                           1, 2, frame_idx, Cardinality(AliveIndices(sprites)),
                           starting_fighters, draw)
       IN  /\ sprites' = st.sprites
           /\ collision_memory' = st.memory
           /\ run_damage_log' = st.log
           /\ contact_log' = ContactTick(st.clog)
    /\ pc' = "collided"
    /\ UNCHANGED <<sim_mode, starting_fighters, frame_idx, total_frames, run_ranking,
                   roster, winner_sprite>>
    /\ UNCHANGED storeVars

InitArena ==
    /\ InitStore
    /\ sim_mode = "arena"
    /\ pc = "move"
    /\ roster = SubSeq(Followers, 1, 3)
    /\ \E xs \in [1..3 -> SpawnXs], vxs \in [1..3 -> SpawnVxs] :
          /\ \A i, j \in 1..3 : i # j => xs[i] # xs[j]
          /\ \A i \in 1..3 : /\ xs[i] >= spawn_margin
                             /\ xs[i] <= arena_width - spawn_margin - arena_sprite_size
          /\ sprites = [k \in 1..3 |->
                 [username |-> roster[k], health |-> sprite_health, alive |-> TRUE,
                  death_frame |-> None, idx |-> k,
                  x |-> xs[k] * LengthUnit, vx |-> vxs[k] * SpeedUnit]]
    /\ starting_fighters = 3
    /\ frame_idx = 0
    /\ collision_memory = EmptyMap
    /\ run_damage_log = EmptyMap
    /\ total_frames = 0
    /\ run_ranking = <<>>
    /\ contact_log = EmptyMap
    /\ winner_sprite = 0

NextArena ==
    \/ ArenaMove
    \/ ArenaCollisions

SpecArena == InitArena /\ [][NextArena]_vars

InitSim ==
    /\ InitStore
    /\ LET followers == roster IN
       \/ /\ followers \in SimRosters
          /\ sim_mode = "video"
          /\ sprites = [k \in 1..Len(SpriteNames(followers)) |->
                           NewSprite(SpriteNames(followers)[k], k, sprite_health)]
          /\ starting_fighters = Max(1, Len(followers))
       \/ /\ followers \in FightRosters
          /\ sim_mode = "fight"
          /\ sprites = [k \in 1..Len(followers) |-> NewSprite(followers[k], k, DEFAULT_HEALTH)]
          /\ starting_fighters = 0
    /\ pc = "loop"
    /\ frame_idx = 0
    /\ collision_memory = EmptyMap
    /\ run_damage_log = EmptyMap
    /\ total_frames = 0
    /\ run_ranking = <<>>
    /\ contact_log = EmptyMap
    /\ winner_sprite = 0

NextSim ==
    \/ SimStep
    \/ BuildRanking
    \/ FightExchange
    \/ FightFinish

SpecSim == InitSim /\ [][NextSim]_vars

Init == InitStore /\ SimIdle

Next ==
    \/ VideoRunEmpty
    \/ VideoRun
    \/ RunAndRecord
    \/ LedgerWriteFails
    \/ RevertNoRun
    \/ RevertEmpty
    \/ Revert

Spec == Init /\ [][Next]_vars

\* ============================================ many runs of a single fighter
\* VideoFightSimulator.run([a]) with its snapshot written, as often as
\* MaxVideoRuns times, and revert_last_run: enough runs for the battle
\* numbers to reach two digits
VideoRunAlone ==
    /\ clock < MaxVideoRuns
    /\ LET ranking == RankingOf(SpriteNames(<<"a">>), <<1>>)
       IN  /\ videos' = videos \cup {_next_battle_number(videos)}
           /\ board_backup' = BackupBoard("ok", scoreboard, board_backup)
           /\ stats_backup' = BackupStats("ok", stats, stats_backup)
           /\ scoreboard' = update_scoreboard(ranking, scoreboard)
           /\ stats' = update_stats_with_battle(ranking, EmptyMap, stats, clock + 1)
           /\ last_run_damage' = save_json(EmptyMap)
           /\ last_run' = save_json(ranking)
           /\ hist' = [Follow("video", TRUE, "") EXCEPT !.backup = "ok", !.n = 1]
           /\ pre_board' = load_json(scoreboard, EmptyMap)
           /\ pre_stats' = load_json(stats, EmptyMap)
    /\ clock' = clock + 1
    /\ UNCHANGED legacy_videos
    /\ UNCHANGED simVars

NextVideos ==
    \/ VideoRunAlone
    \/ Revert

SpecVideos == Init /\ [][NextVideos]_vars

\* ================================================ the stats functions alone
\* update_stats_with_battle and revert_stats_with_battle called on the Stats
\* document with rankings of up to MaxStatsRoster fighters and the damage
\* logs of up to MaxStatsEvents collisions among them
StatsRosters == {SubSeq(Followers, 1, k) : k \in 1..Min(MaxStatsRoster, Len(Followers))}

StatsEvents(n) == {e \in Events(n) : e.damage_b = ScaledDamage(max_damage, n, n)}

StatsUpdate ==
    /\ clock < MaxStatsCalls
    /\ \E usernames \in StatsRosters :
       \E perm \in Perms(Len(usernames)) :
       \E events \in SeqsUpTo(StatsEvents(Len(usernames)), MaxStatsEvents) :
          stats' = update_stats_with_battle(RankingOf(usernames, perm),
                       DamageLogOf(usernames, events, 1, EmptyMap), stats, clock + 1)
    /\ hist' = Follow("update_stats", TRUE, "")
    /\ pre_stats' = load_json(stats, EmptyMap)
    /\ clock' = clock + 1
    /\ UNCHANGED <<scoreboard, last_run, last_run_damage, board_backup, stats_backup,
                   videos, legacy_videos, pre_board>>
    /\ UNCHANGED simVars

StatsRevert ==
    /\ clock < MaxStatsCalls
    /\ \E usernames \in StatsRosters :
       \E perm \in Perms(Len(usernames)) :
       \E events \in SeqsUpTo(StatsEvents(Len(usernames)), MaxStatsEvents) :
          stats' = revert_stats_with_battle(RankingOf(usernames, perm),
                       DamageLogOf(usernames, events, 1, EmptyMap), stats)
    /\ hist' = Follow("revert_stats", TRUE, "")
    /\ pre_stats' = load_json(stats, EmptyMap)
    /\ clock' = clock + 1
    /\ UNCHANGED <<scoreboard, last_run, last_run_damage, board_backup, stats_backup,
                   videos, legacy_videos, pre_board>>
    /\ UNCHANGED simVars

NextStats ==
    \/ StatsUpdate
    \/ StatsRevert

SpecStats == Init /\ [][NextStats]_vars

\* ===================================== VideoFightSimulator.run, call by call
\* run() as the sequence of its calls, one action per call, so that the order
\* in which the documents are written can be observed.  pc names the call
\* that comes next; the outcome of _simulate_frames is drawn as in VideoRun.
RunStepAfter_bug(step) ==
    CASE step = "simulate" -> "write_video"
      [] step = "write_video" -> "build_ranking"
      [] step = "build_ranking" -> "update_scoreboard"
      [] step = "update_scoreboard" -> "backup"
      [] step = "backup" -> "update_stats"
      [] step = "update_stats" -> "save_damage"
      [] step = "save_damage" -> "save_ranking"
      [] OTHER -> "returned"

\* the statement that follows each call of run()
RunStepAfter(step) ==
    CASE step = "simulate" -> "write_video"
      [] step = "write_video" -> "build_ranking"
      [] step = "build_ranking" -> "backup"
      [] step = "backup" -> "update_scoreboard"
      [] step = "update_scoreboard" -> "update_stats"
      [] step = "update_stats" -> "save_damage"
      [] step = "save_damage" -> "save_ranking"
      [] OTHER -> "returned"

\* frame at which the fighter placed k-th of n is eliminated, None for the winner
RunDeathFrame(k, n) == IF k = 1 THEN None ELSE collision_cooldown_frames * (n - k + 1)

\* damage the sprite idx has taken over the events of the run
RECURSIVE DamageTaken(_, _, _)
DamageTaken(events, k, idx) ==
    IF k > Len(events) THEN 0
    ELSE DamageTaken(events, k + 1, idx)
         + (IF events[k].i = idx THEN events[k].damage_b ELSE 0)
         + (IF events[k].j = idx THEN events[k].damage_a ELSE 0)

\* the sprites as _simulate_frames leaves them: nobody alive, the winner
\* without a death frame, the others at zero health
SpritesAfterLoop(usernames, perm, events) ==
    [i \in 1..Len(usernames) |->
        LET k == CHOOSE place \in 1..Len(usernames) : perm[place] = i
        IN  [username |-> usernames[i],
             health |-> IF k = 1 THEN Max(1, sprite_health - DamageTaken(events, 1, i)) ELSE 0,
             alive |-> FALSE,
             death_frame |-> RunDeathFrame(k, Len(usernames)),
             idx |-> i]]

\* run() up to and including _simulate_frames
RunSimulate ==
    /\ sim_mode = "run"
    /\ pc \in {"simulate", "returned"}
    /\ clock < MaxRuns
    /\ \E followers \in Rosters \ {<<>>} :
       LET usernames == SpriteNames(followers)
           n == Len(usernames)
       IN  \E perm \in Perms(n), events \in SeqsUpTo(Events(n), MaxEvents) :
           /\ roster' = followers
           /\ starting_fighters' = Max(1, Len(followers))
           /\ sprites' = SpritesAfterLoop(usernames, perm, events)
           /\ run_damage_log' = DamageLogOf(usernames, events, 1, EmptyMap)
           /\ frame_idx' = collision_cooldown_frames * n
           /\ total_frames' = collision_cooldown_frames * n + fps * win_hold_seconds
           /\ winner_sprite' = perm[1]
           /\ hist' = [Follow("video", FALSE, "running") EXCEPT !.n = n]
    /\ run_ranking' = <<>>
    /\ pre_board' = load_json(scoreboard, EmptyMap)
    /\ pre_stats' = load_json(stats, EmptyMap)
    /\ pc' = RunStepAfter("simulate")
    /\ UNCHANGED <<sim_mode, collision_memory, contact_log>>
    /\ UNCHANGED <<scoreboard, stats, last_run, last_run_damage, board_backup,
                   stats_backup, videos, legacy_videos, clock>>

RunWriteVideo ==
    /\ sim_mode = "run"
    /\ pc = "write_video"
    /\ videos' = videos \cup {_next_battle_number(videos)}
    /\ pc' = RunStepAfter(pc)
    /\ UNCHANGED <<sim_mode, sprites, starting_fighters, frame_idx, collision_memory,
                   run_damage_log, total_frames, run_ranking, contact_log, roster,
                   winner_sprite>>
    /\ UNCHANGED <<scoreboard, stats, last_run, last_run_damage, board_backup,
                   stats_backup, legacy_videos, clock, hist, pre_board, pre_stats>>

RunBuildRanking ==
    /\ sim_mode = "run"
    /\ pc = "build_ranking"
    /\ run_ranking' = _build_ranking(sprites, total_frames)
    /\ sprites' = UnstampedFrames(SurvivorFrames(sprites, total_frames))
    /\ pc' = RunStepAfter(pc)
    /\ UNCHANGED <<sim_mode, starting_fighters, frame_idx, collision_memory,
                   run_damage_log, total_frames, contact_log, roster, winner_sprite>>
    /\ UNCHANGED storeVars

RunBackup ==
    /\ sim_mode = "run"
    /\ pc = "backup"
    /\ \E backup \in BackupOutcomes :
          /\ board_backup' = BackupBoard(backup, scoreboard, board_backup)
          /\ stats_backup' = BackupStats(backup, stats, stats_backup)
          /\ hist' = [hist EXCEPT !.backup = backup]
    /\ pc' = RunStepAfter(pc)
    /\ UNCHANGED <<sim_mode, sprites, starting_fighters, frame_idx, collision_memory,
                   run_damage_log, total_frames, run_ranking, contact_log, roster,
                   winner_sprite>>
    /\ UNCHANGED <<scoreboard, stats, last_run, last_run_damage, videos,
                   legacy_videos, clock, pre_board, pre_stats>>

RunUpdateScoreboard ==
    /\ sim_mode = "run"
    /\ pc = "update_scoreboard"
    /\ scoreboard' = update_scoreboard(run_ranking, scoreboard)
    /\ pc' = RunStepAfter(pc)
    /\ UNCHANGED <<sim_mode, sprites, starting_fighters, frame_idx, collision_memory,
                   run_damage_log, total_frames, run_ranking, contact_log, roster,
                   winner_sprite>>
    /\ UNCHANGED <<stats, last_run, last_run_damage, board_backup, stats_backup,
                   videos, legacy_videos, clock, hist, pre_board, pre_stats>>

RunUpdateStats ==
    /\ sim_mode = "run"
    /\ pc = "update_stats"
    /\ stats' = update_stats_with_battle(run_ranking, run_damage_log, stats, clock + 1)
    /\ pc' = RunStepAfter(pc)
    /\ UNCHANGED <<sim_mode, sprites, starting_fighters, frame_idx, collision_memory,
                   run_damage_log, total_frames, run_ranking, contact_log, roster,
                   winner_sprite>>
    /\ UNCHANGED <<scoreboard, last_run, last_run_damage, board_backup, stats_backup,
                   videos, legacy_videos, clock, hist, pre_board, pre_stats>>

RunSaveDamage ==
    /\ sim_mode = "run"
    /\ pc = "save_damage"
    /\ last_run_damage' = save_json(run_damage_log)
    /\ pc' = RunStepAfter(pc)
    /\ UNCHANGED <<sim_mode, sprites, starting_fighters, frame_idx, collision_memory,
                   run_damage_log, total_frames, run_ranking, contact_log, roster,
                   winner_sprite>>
    /\ UNCHANGED <<scoreboard, stats, last_run, board_backup, stats_backup,
                   videos, legacy_videos, clock, hist, pre_board, pre_stats>>

\* the last statement before run() returns its BattleOutcome
RunSaveRanking ==
    /\ sim_mode = "run"
    /\ pc = "save_ranking"
    /\ last_run' = save_json(run_ranking)
    /\ hist' = [hist EXCEPT !.ok = TRUE, !.err = ""]
    /\ clock' = clock + 1
    /\ pc' = RunStepAfter(pc)
    /\ UNCHANGED <<sim_mode, sprites, starting_fighters, frame_idx, collision_memory,
                   run_damage_log, total_frames, run_ranking, contact_log, roster,
                   winner_sprite>>
    /\ UNCHANGED <<scoreboard, stats, last_run_damage, board_backup, stats_backup,
                   videos, legacy_videos, pre_board, pre_stats>>

InitRun ==
    /\ InitStore
    /\ sim_mode = "run"
    /\ pc = "simulate"
    /\ sprites = <<>>
    /\ starting_fighters = 0
    /\ frame_idx = 0
    /\ collision_memory = EmptyMap
    /\ run_damage_log = EmptyMap
    /\ total_frames = 0
    /\ run_ranking = <<>>
    /\ contact_log = EmptyMap
    /\ roster = <<>>
    /\ winner_sprite = 0

NextRun ==
    \/ RunSimulate
    \/ RunWriteVideo
    \/ RunBuildRanking
    \/ RunBackup
    \/ RunUpdateScoreboard
    \/ RunUpdateStats
    \/ RunSaveDamage
    \/ RunSaveRanking

SpecRun == InitRun /\ [][NextRun]_vars


\* ============================== the legacy animated run (src/fight_battle.py)
\* simulate_and_record: the loop is capped at max_frames = FPS * 60 steps; the
\* model caps it at MaxLegacyFrames steps, enough for a fighter to fall.
\* Contact is overlap of the sprites' boxes and is drawn for every pair.
legacy_hold_frames == 90

LegacyRosters == {SubSeq(Followers, 1, k) : k \in 1..Min(MaxLegacyFighters, Len(Followers))}

\* the body of the double loop of apply_collisions for the pair (i, j):
\* no cooldown, damage of randint(5, 30) each way, no floor at zero
LegacyPairStep(sp, i, j, frame, contact, draw) ==
    LET hit(s, amount) ==
            LET h == s.health - amount
            IN  IF h <= 0 /\ s.alive
                THEN [s EXCEPT !.health = h, !.alive = FALSE, !.death_frame = frame]
                ELSE [s EXCEPT !.health = h]
    IN  IF ~sp[i].alive \/ ~sp[j].alive THEN sp
        ELSE IF <<i, j>> \notin contact THEN sp
        ELSE [sp EXCEPT ![i] = hit(sp[i], draw[<<i, j>>][2]),
                        ![j] = hit(sp[j], draw[<<i, j>>][1])]

RECURSIVE LegacyLoop(_, _, _, _, _, _)
LegacyLoop(sp, i, j, frame, contact, draw) ==
    IF i >= Len(sp) THEN sp
    ELSE IF j > Len(sp) THEN LegacyLoop(sp, i + 1, i + 2, frame, contact, draw)
    ELSE LegacyLoop(LegacyPairStep(sp, i, j, frame, contact, draw),
                    i, j + 1, frame, contact, draw)

apply_collisions(sp, frame, contact, draw) == LegacyLoop(sp, 1, 2, frame, contact, draw)

LegacySurvivorFrames_bug(sp, frames) == sp

\* build_ranking: with more than one sprite alive, the alive ones get
\* total_frames + i in ascending order of health
LegacySurvivorFrames(sp, frames) ==
    IF Cardinality(AliveIndices(sp)) > 1
    THEN [i \in 1..Len(sp) |->
            IF sp[i].alive THEN [sp[i] EXCEPT !.death_frame = frames + HealthPlace(sp, i)]
            ELSE sp[i]]
    ELSE sp

\* build_ranking: a death_frame of None becomes -1
LegacyUnstampedFrames(sp) ==
    [i \in 1..Len(sp) |->
        IF sp[i].death_frame = None THEN [sp[i] EXCEPT !.death_frame = -1] ELSE sp[i]]

build_ranking(sp, frames) ==
    LET sorted_sprites == SortedSprites(LegacyUnstampedFrames(LegacySurvivorFrames(sp, frames)))
    IN  [k \in 1..Len(sorted_sprites) |->
            [username |-> sorted_sprites[k].username, order |-> k,
             final_health |-> sorted_sprites[k].health, idx |-> sorted_sprites[k].idx]]

\* update_scoreboard of fight_simulation.py: total - order + 1 points, no bonus
RECURSIVE LegacyScoreboardLoop(_, _, _)
LegacyScoreboardLoop(ranking, k, board) ==
    IF k > Len(ranking) THEN board
    ELSE LET username == ranking[k].username
             entry == Get(board, username, ZeroEntry)
             upd == [points |-> entry.points + (Len(ranking) - ranking[k].order + 1),
                     runs |-> entry.runs + 1]
         IN  IF username = "" THEN LegacyScoreboardLoop(ranking, k + 1, board)
             ELSE LegacyScoreboardLoop(ranking, k + 1, Put(board, username, upd))

legacy_update_scoreboard(ranking, doc) ==
    save_json(LegacyScoreboardLoop(ranking, 1, load_json(doc, EmptyMap)))

\* one pass of "while frame_idx < max_frames"
LegacyStep ==
    /\ sim_mode = "legacy"
    /\ pc = "loop"
    /\ frame_idx < MaxLegacyFrames
    /\ \E contact \in SUBSET AlivePairs(sprites) :
       \E draw \in [contact -> FightDamages \X FightDamages] :
       LET sp == apply_collisions(sprites, frame_idx, contact, draw)
           alive == AliveIndices(sp)
       IN  /\ sprites' = sp
           /\ IF Cardinality(alive) <= 1
              THEN /\ winner_sprite' = IF alive = {} THEN 0 ELSE CHOOSE i \in alive : TRUE
                   /\ total_frames' = frame_idx + legacy_hold_frames
                   /\ frame_idx' = frame_idx
                   /\ pc' = "ended"
              ELSE /\ winner_sprite' = winner_sprite
                   /\ total_frames' = frame_idx + 1
                   /\ frame_idx' = frame_idx + 1
                   /\ pc' = IF frame_idx + 1 < MaxLegacyFrames THEN "loop" ELSE "ended"
    /\ UNCHANGED <<sim_mode, starting_fighters, collision_memory, run_damage_log,
                   run_ranking, contact_log, roster>>
    /\ UNCHANGED storeVars

\* simulate_and_record after the loop: the video is written to "battles", the
\* ranking built and handed to update_scoreboard
LegacyRecord ==
    /\ sim_mode = "legacy"
    /\ pc = "ended"
    /\ legacy_videos' = legacy_videos \cup {Cardinality(legacy_videos) + 1}
    /\ run_ranking' = build_ranking(sprites, total_frames)
    /\ sprites' = LegacyUnstampedFrames(LegacySurvivorFrames(sprites, total_frames))
    /\ scoreboard' = legacy_update_scoreboard(build_ranking(sprites, total_frames), scoreboard)
    /\ pc' = "done"
    /\ UNCHANGED <<sim_mode, starting_fighters, frame_idx, collision_memory,
                   run_damage_log, total_frames, contact_log, roster, winner_sprite>>
    /\ UNCHANGED <<stats, last_run, last_run_damage, board_backup, stats_backup,
                   videos, clock, hist, pre_board, pre_stats>>

InitLegacy ==
    /\ InitStore
    /\ sim_mode = "legacy"
    /\ pc = "loop"
    /\ roster \in LegacyRosters
    /\ sprites = [k \in 1..Len(roster) |-> NewSprite(roster[k], k, sprite_health)]
    /\ starting_fighters = 0
    /\ frame_idx = 0
    /\ collision_memory = EmptyMap
    /\ run_damage_log = EmptyMap
    /\ total_frames = 0
    /\ run_ranking = <<>>
    /\ contact_log = EmptyMap
    /\ winner_sprite = 0

NextLegacy ==
    \/ LegacyStep
    \/ LegacyRecord

SpecLegacy == InitLegacy /\ [][NextLegacy]_vars


\* ================================== the last steps of a three-fighter run
\* An animated run of three fighters taken up at step MaxFrames - MaxLateSteps.
\* Its first steps are played by the loop itself: the pairs in `touching`
\* collide at every second step (the step between clears their cooldown) for
\* `hits` damage events with the largest draw, then nobody touches.
LoopState(sp) ==
    [sprites |-> sp, memory |-> EmptyMap, log |-> EmptyMap, clog |-> EmptyMap]

RECURSIVE LoopPasses(_, _, _, _, _, _)
LoopPasses(st, frame, upto, starting, touching, hits) ==
    IF frame >= upto THEN st
    ELSE LET contact == IF frame % 2 = 0 /\ frame < 2 * hits
                        THEN touching \cap AlivePairs(st.sprites) ELSE {}
             draw == [key \in contact |-> <<max_damage, max_damage>>]
             after == _apply_collisions(st, frame, starting, contact, draw)
         IN  LoopPasses([after EXCEPT !.clog = ContactTick(@)],
                        frame + 1, upto, starting, touching, hits)

\* n passes of the loop in which no pair collides: every pair's memory entry
\* is popped and its contact is broken
IdlePasses(st, n) ==
    [st EXCEPT !.memory = EmptyMap,
               !.clog = [key \in DOMAIN st.clog |->
                            [st.clog[key] EXCEPT
                                !.since = Min(@ + n, collision_cooldown_frames),
                                !.touching = FALSE]]]

LateHits == {6, 7}

InitLate ==
    /\ InitStore
    /\ sim_mode = "video"
    /\ pc = "loop"
    /\ roster = SubSeq(Followers, 1, 3)
    /\ starting_fighters = 3
    /\ frame_idx = MaxFrames - MaxLateSteps
    /\ \E touching \in (SUBSET AllPairs(3)) \ {{}}, hits \in LateHits :
       LET st == IdlePasses(
                     LoopPasses(LoopState([k \in 1..3 |->
                                              NewSprite(roster[k], k, sprite_health)]),
                                0, 2 * hits, 3, touching, hits),
                     MaxFrames - MaxLateSteps - 2 * hits)
       IN  /\ sprites = st.sprites
           /\ collision_memory = st.memory
           /\ run_damage_log = st.log
           /\ contact_log = st.clog
    /\ total_frames = 0
    /\ run_ranking = <<>>
    /\ winner_sprite = 0

NextLate ==
    \/ SimStep
    \/ BuildRanking

SpecLate == InitLate /\ [][NextLate]_vars


\* ======================================================== run_fight alone
\* The non-visual fight over rosters of up to MaxFightRoster followers.  The
\* while loop is sequential code: a pass that can be taken is taken.
InitFight ==
    /\ InitStore
    /\ roster \in FightRosters
    /\ sim_mode = "fight"
    /\ sprites = [k \in 1..Len(roster) |-> NewSprite(roster[k], k, DEFAULT_HEALTH)]
    /\ starting_fighters = 0
    /\ pc = "loop"
    /\ frame_idx = 0
    /\ collision_memory = EmptyMap
    /\ run_damage_log = EmptyMap
    /\ total_frames = 0
    /\ run_ranking = <<>>
    /\ contact_log = EmptyMap
    /\ winner_sprite = 0

NextFight ==
    \/ FightExchange
    \/ FightFinish

SpecFight == InitFight /\ [][NextFight]_vars /\ WF_vars(NextFight)


\* ================================================== the set-up of run()
\* run() up to the start of the loop, over rosters of up to MaxCrowd
\* followers, more than max_fighters of them.
Crowd(n) == [k \in 1..n |-> ToString(k)]

\* _damage_scale as the fraction <<numerator, denominator>>:
\* 1/2 + (1 - ratio) * (1 - 1/2) with ratio = alive / max(1, starting), clamped
_damage_scale(alive_count, starting) ==
    LET s == Max(1, starting)
        a == Max(0, Min(alive_count, s))
    IN  <<2 * s - a, 2 * s>>

\* _set_sprite_geometry: self.starting_fighters = max(1, fighter_count)
set_starting_fighters(fighter_count) == Max(1, fighter_count)

\* self._set_sprite_geometry(len(followers))
SetSpriteGeometry ==
    /\ sim_mode = "setup"
    /\ pc = "start"
    /\ starting_fighters' = set_starting_fighters(Len(roster))
    /\ pc' = "geometry"
    /\ UNCHANGED <<sim_mode, sprites, frame_idx, collision_memory, run_damage_log,
                   total_frames, run_ranking, contact_log, roster, winner_sprite>>
    /\ UNCHANGED storeVars

\* sprites = self._create_sprites(followers)
CreateSprites ==
    /\ sim_mode = "setup"
    /\ pc = "geometry"
    /\ sprites' = [k \in 1..Len(SpriteNames(roster)) |->
                      NewSprite(SpriteNames(roster)[k], k, sprite_health)]
    /\ pc' = "created"
    /\ UNCHANGED <<sim_mode, starting_fighters, frame_idx, collision_memory,
                   run_damage_log, total_frames, run_ranking, contact_log, roster,
                   winner_sprite>>
    /\ UNCHANGED storeVars

InitSetup ==
    /\ InitStore
    /\ sim_mode = "setup"
    /\ pc = "start"
    /\ roster \in {Crowd(n) : n \in 1..MaxCrowd}
    /\ sprites = <<>>
    /\ starting_fighters = 0
    /\ frame_idx = 0
    /\ collision_memory = EmptyMap
    /\ run_damage_log = EmptyMap
    /\ total_frames = 0
    /\ run_ranking = <<>>
    /\ contact_log = EmptyMap
    /\ winner_sprite = 0

NextSetup ==
    \/ SetSpriteGeometry
    \/ CreateSprites

SpecSetup == InitSetup /\ [][NextSetup]_vars


\* =================================================================== claims
IsRun(op) == op \in {"video", "record"}

LedgerNow == load_json(scoreboard, EmptyMap)
StatsNow == load_json(stats, EmptyMap)

\* a successful revert issued directly after a completed run
RevertedAfterRun == hist.op = "revert" /\ hist.ok /\ IsRun(hist.prev_op) /\ hist.prev_ok

\* C1: after any sequence of completed runs followed by one revert, the Score
\* Ledger and the Stats equal their contents just before the most recent run.
C1_RevertUndoesExactlyLatestRun ==
    (RevertedAfterRun /\ hist.clean) => (LedgerNow = pre_board /\ StatsNow = pre_stats)

\* C2: when the snapshot of a video run succeeded, a revert directly after the
\* run restores the Score Ledger and the Stats to their pre-run contents.
C2_ExactRevertAfterSnapshot ==
    (RevertedAfterRun /\ hist.prev_op = "video" /\ hist.prev_backup = "ok")
        => (LedgerNow = pre_board /\ StatsNow = pre_stats)

C2_Witness ==
    /\ RevertedAfterRun /\ hist.prev_op = "video" /\ hist.prev_backup = "ok"
    /\ pre_board # EmptyMap
    /\ pre_stats # EmptyMap

\* ---- C4
RankingNames(ranking) == {ranking[k].username : k \in 1..Len(ranking)}

DistinctNonEmpty(ranking) ==
    /\ \A k \in 1..Len(ranking) : ranking[k].username # ""
    /\ \A i, j \in 1..Len(ranking) : i # j => ranking[i].username # ranking[j].username

RECURSIVE TotalPoints(_)
TotalPoints(board) ==
    IF DOMAIN board = {} THEN 0
    ELSE LET u == CHOOSE x \in DOMAIN board : TRUE
         IN  board[u].points + TotalPoints(Pop(board, u))

\* a run has just completed and its ranking names N >= 1 distinct usernames
RunJustScored ==
    /\ IsRun(hist.op) /\ hist.ok
    /\ Len(last_run.val) >= 1
    /\ DistinctNonEmpty(last_run.val)

C5_AnalyticLedgerRevert ==
    (RevertedAfterRun /\ ~hist.had_board_backup /\ ~hist.had_stats_backup)
        => LedgerNow = pre_board

C5_Witness ==
    /\ RevertedAfterRun /\ ~hist.had_board_backup /\ ~hist.had_stats_backup
    /\ pre_board # EmptyMap
    /\ hist.n = 2

RevertStep == hist'.op = "revert" /\ hist' # hist

\* C6: a revert with no last-run ranking document, or with an empty or
\* unreadable one, ends with an error and changes no document and no video.
C6_RevertWithoutRunFails ==
    [][(RevertStep /\ (~Exists(last_run) \/ load_json(last_run, <<>>) = <<>>))
          => /\ ~hist'.ok
             /\ hist'.err # ""
             /\ UNCHANGED <<scoreboard, stats, last_run, last_run_damage,
                            board_backup, stats_backup, videos, legacy_videos>>]_vars

C6_Witness ==
    /\ hist.op = "revert" /\ ~hist.ok
    /\ last_run.st = "corrupt"
    /\ LedgerNow # EmptyMap

C6_WitnessEmpty ==
    /\ hist.op = "revert" /\ ~hist.ok
    /\ last_run.st = "ok"

ArtifactsGone ==
    /\ ~Exists(last_run)
    /\ ~Exists(last_run_damage)
    /\ ~Exists(board_backup)
    /\ ~Exists(stats_backup)

\* C7: after a successful revert no run artifact exists, and a second revert
\* with no run in between fails and changes neither ledger, stats nor videos.
C7_SecondRevertFails ==
    [][/\ (RevertStep /\ hist'.ok) => ArtifactsGone'
       /\ (RevertStep /\ hist.op = "revert" /\ hist.ok)
             => /\ ~hist'.ok
                /\ UNCHANGED <<scoreboard, stats, videos, legacy_videos>>]_vars

C7_Witness ==
    /\ hist.op = "revert" /\ ~hist.ok
    /\ hist.prev_op = "revert" /\ hist.prev_ok
    /\ LedgerNow # EmptyMap

\* C8: a run started with an empty roster, through either entry point, fails
\* and leaves ledger, stats and every last-run artifact as they were.
C8_EmptyRosterFailsFast ==
    [][(IsRun(hist'.op) /\ hist' # hist /\ hist'.n = 0)
          => /\ ~hist'.ok
             /\ UNCHANGED <<scoreboard, stats, last_run, last_run_damage,
                            board_backup, stats_backup>>]_vars

SimDone == sim_mode \in {"video", "fight"} /\ pc = "done"

\* the fighters of the run, by identity: the sprites created from the roster
\* (animated) or the fighter dicts built from it (non-visual)
FighterIds == 1..Len(roster)

FighterName(i) ==
    IF sim_mode = "video" THEN SpriteNames(roster)[i] ELSE roster[i]

\* C3: the ranking of every completed run with N fighters, animated or
\* non-visual, holds each fighter of the run exactly once, and its order
\* values are exactly 1..N, each used once.
C3_RankingIsPermutation ==
    SimDone =>
        /\ Len(run_ranking) = Len(roster)
        /\ \A i \in FighterIds :
              Cardinality({k \in 1..Len(run_ranking) :
                  run_ranking[k].idx = i /\ run_ranking[k].username = FighterName(i)}) = 1
        /\ \A o \in 1..Len(roster) :
              Cardinality({k \in 1..Len(run_ranking) : run_ranking[k].order = o}) = 1

\* an animated run of two fighters that fell in the same step has been ranked
C3_Witness ==
    /\ SimDone
    /\ sim_mode = "video"
    /\ Len(run_ranking) = 2
    /\ sprites[1].death_frame = sprites[2].death_frame

\* a non-visual run of two fighters has been ranked with the second on top
C3_WitnessFight ==
    /\ SimDone
    /\ sim_mode = "fight"
    /\ Len(run_ranking) = 2
    /\ run_ranking[1].idx = 2

\* a pair has had a damage event after an earlier one
Repeated(key) == key \in DOMAIN contact_log /\ contact_log[key].gap > 0

\* C10 as stated: any two damage events between the same pair of fighters
\* are at least collision_cooldown_frames steps apart, whatever happened
\* between them.
C10_CooldownWhateverThePattern ==
    sim_mode = "video" =>
        \A key \in DOMAIN contact_log :
            Repeated(key) => contact_log[key].gap >= collision_cooldown_frames

\* C10 amended: two successive damage events between the same pair are at
\* least collision_cooldown_frames steps apart when the pair was found in
\* contact at every step between them, and at least 2 steps apart otherwise.
C10_CooldownWhileInContact ==
    sim_mode = "video" =>
        \A key \in DOMAIN contact_log :
            Repeated(key) =>
                /\ contact_log[key].unbroken =>
                       contact_log[key].gap >= collision_cooldown_frames
                /\ contact_log[key].gap >= 2

\* a pair that stayed in contact has just been damaged a second time
C10_Witness ==
    /\ sim_mode = "video"
    /\ \E key \in DOMAIN contact_log :
          /\ Repeated(key)
          /\ contact_log[key].unbroken
          /\ contact_log[key].since = 1

\* a pair that separated and met again was damaged two steps after the first time
C10_WitnessSeparated ==
    /\ sim_mode = "video"
    /\ \E key \in DOMAIN contact_log :
          /\ Repeated(key)
          /\ ~contact_log[key].unbroken
          /\ contact_log[key].gap = 2

InLoop == sim_mode = "video" /\ pc \in {"loop", "ended"}

SpriteStateOk(s) ==
    /\ s.health >= 0
    /\ s.health <= sprite_health
    /\ s.health = 0 => ~s.alive /\ s.death_frame # None

SpriteStepOk(i) ==
    /\ sprites'[i].health <= sprites[i].health
    /\ ~sprites[i].alive => ~sprites'[i].alive
    /\ (sprites[i].health > 0 /\ sprites'[i].health = 0) =>
           ~sprites'[i].alive /\ sprites'[i].death_frame = frame_idx

\* C11: throughout the animated loop every fighter's health lies in [0, 100]
\* and never increases; a fighter whose health reaches 0 is not alive from
\* that same step on, with death_frame the index of that step; and a fighter
\* that is not alive never becomes alive again.
C11_HealthAndElimination ==
    /\ [](InLoop => \A i \in 1..Len(sprites) : SpriteStateOk(sprites[i]))
    /\ [][InLoop => \A i \in 1..Len(sprites) : SpriteStepOk(i)]_vars

\* a fighter has just been brought to zero in the step that ended the loop
C11_Witness ==
    /\ InLoop
    /\ \E i \in 1..Len(sprites) :
          /\ sprites[i].health = 0
          /\ ~sprites[i].alive
          /\ sprites[i].death_frame = frame_idx
          /\ frame_idx > 0

\* the sprites never stamped by _apply_damage: those alive at the loop's exit
Survivors == {i \in 1..Len(sprites) : sprites[i].health > 0}

\* C12: the animated loop exits only with at most one fighter alive, and a
\* fighter alive at the exit holds order 1 in the ranking built for the run.
C12_ExitWithOneSurvivorOnTop ==
    (sim_mode = "video" /\ pc \in {"ended", "done"}) =>
        /\ Cardinality(Survivors) <= 1
        /\ Survivors = IF winner_sprite = 0 THEN {} ELSE {winner_sprite}
        /\ (pc = "done" /\ winner_sprite # 0) =>
               \E k \in 1..Len(run_ranking) :
                   /\ run_ranking[k].idx = winner_sprite
                   /\ run_ranking[k].order = 1

\* a run of two has been ranked whose survivor is the second sprite
C12_Witness ==
    /\ sim_mode = "video"
    /\ pc = "done"
    /\ Len(sprites) = 2
    /\ winner_sprite = 2

\* a revert that succeeds directly after an animated run, with neither
\* backup document loadable
AnalyticRevertAfterRun ==
    /\ hist.op = "video"
    /\ hist.ok
    /\ RevertStep
    /\ hist'.ok
    /\ ~LoadsNotNone(board_backup)
    /\ ~LoadsNotNone(stats_backup)

StatsEntryReverted(old, new, ranking, log, k) ==
    LET u == Strip(ranking[k].username)
        dealt == Get(log, u, <<>>)
    IN  u \in DOMAIN old =>
            /\ u \in DOMAIN new
            /\ new[u].matches = old[u].matches - 1
            /\ new[u].wins = old[u].wins - (IF ranking[k].order = 1 THEN 1 ELSE 0)
            /\ new[u].total_damage_dealt = old[u].total_damage_dealt - SumDamage(dealt, 1)
            /\ new[u].total_hits = old[u].total_hits - SumHits(dealt, 1)
            /\ \A m \in 1..Len(dealt) :
                  /\ DictGet(new[u].damage_to, dealt[m].opp).damage
                       = DictGet(old[u].damage_to, dealt[m].opp).damage - dealt[m].damage
                  /\ DictGet(new[u].damage_to, dealt[m].opp).hits
                       = DictGet(old[u].damage_to, dealt[m].opp).hits - dealt[m].hits

\* C13: with no backups, revert_last_run takes the run back out of Stats:
\* every fighter of the persisted ranking loses one match, the order-1
\* fighter one win, and every attacker the damage and hits of the persisted
\* damage log, in the totals and in each damage_to entry.
C13_AnalyticStatsRevert ==
    [][AnalyticRevertAfterRun =>
          \A k \in 1..Len(load_json(last_run, <<>>)) :
              StatsEntryReverted(load_json(stats, EmptyMap), load_json(stats', EmptyMap),
                                 load_json(last_run, <<>>),
                                 load_json(last_run_damage, EmptyMap), k)]_vars

\* a step of VideoFightSimulator.run that reached update_stats_with_battle
VideoRunStep == hist'.op = "video" /\ hist'.ok /\ clock' = clock + 1

\* the same (ranking, damage log) is applied as in the run just before
SameBattleAgain ==
    /\ hist.op = "video"
    /\ hist.ok
    /\ last_run' = last_run
    /\ last_run_damage' = last_run_damage

StatsOf(st, u) == Get(st, u, DefaultStats)

\* the counters of u grew from mid to new by as much as from old to mid
SameIncrement(old, mid, new, u) ==
    /\ StatsOf(new, u).matches - StatsOf(mid, u).matches
         = StatsOf(mid, u).matches - StatsOf(old, u).matches
    /\ StatsOf(new, u).wins - StatsOf(mid, u).wins
         = StatsOf(mid, u).wins - StatsOf(old, u).wins
    /\ StatsOf(new, u).total_damage_dealt - StatsOf(mid, u).total_damage_dealt
         = StatsOf(mid, u).total_damage_dealt - StatsOf(old, u).total_damage_dealt
    /\ StatsOf(new, u).total_hits - StatsOf(mid, u).total_hits
         = StatsOf(mid, u).total_hits - StatsOf(old, u).total_hits
    /\ \A v \in DictKeys(StatsOf(new, u).damage_to) :
          /\ DictGet(StatsOf(new, u).damage_to, v).damage
               - DictGet(StatsOf(mid, u).damage_to, v).damage
             = DictGet(StatsOf(mid, u).damage_to, v).damage
               - DictGet(StatsOf(old, u).damage_to, v).damage
          /\ DictGet(StatsOf(new, u).damage_to, v).hits
               - DictGet(StatsOf(mid, u).damage_to, v).hits
             = DictGet(StatsOf(mid, u).damage_to, v).hits
               - DictGet(StatsOf(old, u).damage_to, v).hits

\* C14: update_stats_with_battle adds 1 to matches for each ranking entry and
\* 1 to wins for the order-1 entry only; applied a second time to the same
\* ranking and damage log it adds the same amounts again, so that the
\* increments of matches, wins, total_damage_dealt, total_hits and of every
\* damage_to entry over the two applications are double those of one.
C14_StatsUpdateNotDeduplicated ==
    [][VideoRunStep =>
          LET mid == load_json(stats, EmptyMap)
              new == load_json(stats', EmptyMap)
              ranking == load_json(last_run', <<>>)
          IN  /\ \A k \in 1..Len(ranking) :
                    LET u == Strip(ranking[k].username)
                    IN  u # "" =>
                          /\ StatsOf(new, u).matches = StatsOf(mid, u).matches + 1
                          /\ StatsOf(new, u).wins = StatsOf(mid, u).wins
                                + (IF ranking[k].order = 1 THEN 1 ELSE 0)
              /\ SameBattleAgain =>
                    \A u \in DOMAIN new : SameIncrement(pre_stats, mid, new, u)]_vars

\* two runs in a row with the same ranking and a damage event: the attacker's
\* damage_to entry holds two hits and twice the damage of the persisted log
C14_Witness ==
    /\ hist.op = "video" /\ hist.ok
    /\ hist.prev_op = "video" /\ hist.prev_ok
    /\ pre_stats # EmptyMap
    /\ \E a \in DOMAIN load_json(last_run_damage, EmptyMap) :
          LET dealt == load_json(last_run_damage, EmptyMap)[a]
          IN  /\ Len(dealt) > 0
              /\ StatsOf(pre_stats, a).matches = 1
              /\ StatsOf(StatsNow, a).matches = 2
              /\ StatsOf(StatsNow, a).total_hits = 2 * SumHits(dealt, 1)
              /\ StatsOf(StatsNow, a).total_damage_dealt = 2 * SumDamage(dealt, 1)

RivalIsMaximal(entry) ==
    IF Len(entry.damage_to) = 0 THEN entry.biggest_rival = ""
    ELSE \E k \in 1..Len(entry.damage_to) :
            /\ entry.damage_to[k].opp = entry.biggest_rival
            /\ \A m \in 1..Len(entry.damage_to) :
                  entry.damage_to[m].damage <= entry.damage_to[k].damage

\* C15: after update_stats_with_battle and after revert_stats_with_battle,
\* every Stats entry, touched by the call or not, names as biggest_rival an
\* opponent of maximal damage in its damage_to, or "" when damage_to is empty.
C15_BiggestRivalIsMaximal ==
    hist.op \in {"update_stats", "revert_stats"} =>
        \A u \in DOMAIN StatsNow : RivalIsMaximal(StatsNow[u])

\* revert_stats_with_battle has left an entry with two opponents whose
\* later-recorded opponent took the most damage and is the rival
C15_Witness ==
    /\ hist.op = "revert_stats"
    /\ \E u \in DOMAIN StatsNow :
          /\ Len(StatsNow[u].damage_to) = 2
          /\ StatsNow[u].damage_to[2].damage > StatsNow[u].damage_to[1].damage
          /\ StatsNow[u].biggest_rival = StatsNow[u].damage_to[2].opp

\* revert_stats_with_battle has emptied an entry's damage_to and cleared its rival
C15_WitnessCleared ==
    /\ hist.op = "revert_stats"
    /\ \E u \in DOMAIN StatsNow :
          /\ u \in DOMAIN pre_stats
          /\ pre_stats[u].biggest_rival # ""
          /\ Len(StatsNow[u].damage_to) = 0
          /\ StatsNow[u].biggest_rival = ""

\* a run ended by a failure of the ledger write
LedgerWriteFailed == IsRun(hist'.op) /\ ~hist'.ok /\ hist'.err = "ledger write failed"

\* C16: the ledger update of a run is all-or-nothing: when the write of
\* update_scoreboard fails, the persisted Score Ledger reads as it did before
\* the run.
C16_LedgerWriteAllOrNothing ==
    [][LedgerWriteFailed =>
          load_json(scoreboard', EmptyMap) = load_json(scoreboard, EmptyMap)]_vars

HighestNumber(numbers) == CHOOSE n \in numbers : \A m \in numbers : m <= n

\* a revert that went through, with battle videos present
RevertWithVideos == RevertStep /\ hist'.ok /\ videos # {}

\* C17: revert_last_run deletes exactly one battle video, the one with the
\* highest battle number, however many battle videos there are.
C17_RevertDeletesLatestVideo ==
    [][RevertWithVideos => videos' = videos \ {HighestNumber(videos)}]_vars

\* C18: when the collision pass of a step has finished, no two alive
\* fighters have centres closer than one sprite_size.
C18_NoOverlapAfterCollisions ==
    (sim_mode = "arena" /\ pc = "collided") =>
        \A key \in AllPairs(Len(sprites)) :
            (sprites[key[1]].alive /\ sprites[key[2]].alive) =>
                ~_collides(sprites, key[1], key[2])

\* C19: every entry of a ranking built by _build_ranking or by run_fight
\* has final_health >= 0.
C19_FinalHealthNonNegative ==
    SimDone => \A k \in 1..Len(run_ranking) : run_ranking[k].final_health >= 0

\* the hits recorded from attacker to defender, 0 without an entry
HitsLogged(log, attacker, defender) ==
    IF attacker \in DOMAIN log THEN DictGet(log[attacker], defender).hits ELSE 0

EntryLogged(log, attacker, defender) ==
    attacker \in DOMAIN log /\ DictIndex(log[attacker], defender) # 0

\* C20: at every point of an animated run the damage log holds an entry
\* a -> b exactly when it holds one b -> a, and both count the same hits.
C20_HitsRecordedBothWays ==
    sim_mode = "video" =>
        \A i, j \in 1..Len(sprites) :
            LET a == sprites[i].username
                b == sprites[j].username
            IN  /\ EntryLogged(run_damage_log, a, b) <=> EntryLogged(run_damage_log, b, a)
                /\ HitsLogged(run_damage_log, a, b) = HitsLogged(run_damage_log, b, a)

\* a pair has hit each other three times
C20_Witness ==
    /\ sim_mode = "video"
    /\ Len(sprites) = 2
    /\ HitsLogged(run_damage_log, sprites[1].username, sprites[2].username) = 3
    /\ HitsLogged(run_damage_log, sprites[2].username, sprites[1].username) = 3

\* the step writes the Score Ledger, the Stats or a last-run document
WritesRunDocs ==
    \/ scoreboard' # scoreboard
    \/ stats' # stats
    \/ last_run' # last_run
    \/ last_run_damage' # last_run_damage

\* the loop has exited and _build_ranking has returned the ranking of this run
RankingBuilt == total_frames > 0 /\ run_ranking # <<>> /\ Len(run_ranking) = Len(sprites)

\* the Score Ledger holds the update of this run
LedgerUpdated ==
    load_json(scoreboard, EmptyMap)
        = load_json(update_scoreboard(run_ranking, save_json(pre_board)), EmptyMap)

\* C21: within VideoFightSimulator.run the loop has ended and the ranking is
\* built before the Score Ledger, the Stats or a last-run document is written;
\* the snapshot is taken while ledger and stats still hold their pre-run
\* contents and before either is modified; the Stats are updated after the
\* Score Ledger, with the damage log that is then persisted; and the last-run
\* ranking is written last, after which run() returns.
C21_PersistenceOrder ==
    [][sim_mode = "run" =>
        /\ WritesRunDocs => RankingBuilt
        /\ (board_backup' # board_backup \/ stats_backup' # stats_backup) =>
              /\ load_json(scoreboard, EmptyMap) = pre_board
              /\ load_json(stats, EmptyMap) = pre_stats
              /\ scoreboard' = scoreboard /\ stats' = stats
        /\ (scoreboard' # scoreboard \/ stats' # stats) => hist.backup # "none"
        /\ stats' # stats =>
              /\ LedgerUpdated
              /\ stats' = update_stats_with_battle(run_ranking, run_damage_log,
                                                   stats, clock + 1)
        /\ last_run_damage' # last_run_damage =>
              /\ load_json(stats, EmptyMap) # pre_stats
              /\ last_run_damage' = save_json(run_damage_log)
        /\ last_run' # last_run =>
              /\ LedgerUpdated
              /\ load_json(stats, EmptyMap) # pre_stats
              /\ last_run_damage = save_json(run_damage_log)
              /\ last_run' = save_json(run_ranking)
              /\ pc' = "returned"
        /\ pc = "returned" => ~WritesRunDocs]_vars

\* a second run of two fighters has returned, its snapshot taken and every
\* document written
C21_Witness ==
    /\ sim_mode = "run"
    /\ pc = "returned"
    /\ clock = 2
    /\ Len(run_ranking) = 2
    /\ hist.backup = "ok"
    /\ board_backup.st = "ok" /\ board_backup.val = pre_board /\ pre_board # EmptyMap
    /\ run_damage_log # EmptyMap
    /\ last_run = save_json(run_ranking)
    /\ last_run_damage = save_json(run_damage_log)

\* place of the sprite idx in a ranking
OrderOf(ranking, idx) ==
    (CHOOSE k \in 1..Len(ranking) : ranking[k].idx = idx)

\* C22: in the legacy animated run, when the loop ends with exactly one
\* fighter alive, that survivor has order 1 in the ranking handed to
\* update_scoreboard.
C22_LegacySurvivorFirst ==
    (sim_mode = "legacy" /\ pc = "done" /\ Cardinality(AliveIndices(sprites)) = 1) =>
        \A i \in AliveIndices(sprites) : run_ranking[OrderOf(run_ranking, i)].order = 1

\* the sprites that fell during the loop, and those still alive at its end
Eliminated(sp) == {i \in 1..Len(sp) : ~sp[i].alive}

\* a ranking built from the sprites sp, stamped holding their final death
\* frames: survivors beyond every real elimination frame and ahead of every
\* eliminated fighter, more health giving the better order
CapRankingOk(sp, stamped, ranking) ==
    /\ \A s \in AliveIndices(sp), e \in Eliminated(sp) :
          /\ stamped[s].death_frame > sp[e].death_frame
          /\ ranking[OrderOf(ranking, s)].order < ranking[OrderOf(ranking, e)].order
    /\ \A s, t \in AliveIndices(sp) :
          sp[s].health > sp[t].health =>
              ranking[OrderOf(ranking, s)].order < ranking[OrderOf(ranking, t)].order

\* C23: when a ranking is built with more than one fighter alive (the step cap
\* was reached), every survivor gets a synthetic death frame above every real
\* elimination frame and ranks ahead of every eliminated fighter, and among
\* survivors strictly more health gives a strictly better order; for
\* build_ranking and for _build_ranking on the same sprites.
C23_SurvivorsAtStepCap ==
    (sim_mode = "legacy" /\ pc = "done" /\ Cardinality(AliveIndices(sprites)) > 1) =>
        /\ CapRankingOk(sprites, sprites, run_ranking)
        /\ \E stamped \in {UnstampedFrames(SurvivorFrames(sprites, total_frames))} :
           \E ranking \in {_build_ranking(sprites, total_frames)} :
              CapRankingOk(sprites, stamped, ranking)

\* the cap is reached with one fighter eliminated and two survivors of
\* different health, the one later in the roster holding more
C23_Witness ==
    /\ sim_mode = "legacy"
    /\ pc = "done"
    /\ Len(sprites) = 3
    /\ ~sprites[1].alive /\ sprites[2].alive /\ sprites[3].alive
    /\ sprites[3].health > sprites[2].health
    /\ total_frames = MaxLegacyFrames

\* C24: in a completed animated run no two fighters have the same death
\* frame, so the final order never depends on roster position.
C24_DeathFramesDistinct ==
    (sim_mode = "video" /\ pc = "done") =>
        \A i, j \in 1..Len(sprites) :
            i # j => sprites[i].death_frame # sprites[j].death_frame

\* C30: in every completed animated run the fighter given order 1 was alive
\* when the loop exited (it is the sprite _simulate_frames returns) and has
\* final_health > 0; no run ends with every fighter eliminated.
C30_WinnerWasAlive ==
    (sim_mode = "video" /\ pc = "done") =>
        /\ winner_sprite # 0
        /\ \A k \in 1..Len(run_ranking) :
              run_ranking[k].order = 1 =>
                  /\ run_ranking[k].idx = winner_sprite
                  /\ run_ranking[k].final_health > 0

\* C25: after every simulation step of the animated loop (the move followed
\* by the collision pass) every alive fighter lies inside the arena; on the
\* horizontal axis, 0 <= x <= width - sprite_size.
C25_AliveInsideArena ==
    (sim_mode = "arena" /\ pc = "collided") =>
        \A i \in AliveIndices(sprites) :
            /\ sprites[i].x >= 0
            /\ sprites[i].x <= arena_width * LengthUnit - ArenaSize

\* the damage recorded from attacker to defender, 0 without an entry
DamageLogged(log, attacker, defender) ==
    IF attacker \in DOMAIN log THEN DictGet(log[attacker], defender).damage ELSE 0

\* what the step under way adds to the log from sprite k to sprite i
HitsInStep(k, i) ==
    HitsLogged(run_damage_log', sprites[k].username, sprites[i].username)
        - HitsLogged(run_damage_log, sprites[k].username, sprites[i].username)

DamageInStep(k, i) ==
    DamageLogged(run_damage_log', sprites[k].username, sprites[i].username)
        - DamageLogged(run_damage_log, sprites[k].username, sprites[i].username)

RECURSIVE TakenInStep(_, _)
TakenInStep(i, k) ==
    IF k = 0 THEN 0
    ELSE TakenInStep(i, k - 1) + (IF k = i THEN 0 ELSE DamageInStep(k, i))

\* the sprite falls in the step under way
FallsInStep(i) == sprites[i].alive /\ sprites'[i].death_frame = frame_idx

\* the opponents of sprite i are met in ascending index within one pass, so
\* the last one that hit it is the one with the highest index
LastHitter(i) ==
    CHOOSE k \in 1..Len(sprites) :
        /\ HitsInStep(k, i) > 0
        /\ \A m \in 1..Len(sprites) : HitsInStep(m, i) > 0 => m <= k

\* C26: within one simulation step, a fighter eliminated by the damage of an
\* earlier pair takes part in no later pair of that step: the hit that takes
\* it to zero is the last entry of the step that names it, as defender or as
\* attacker.
C26_DeadFighterSkipsLaterPairs ==
    [][(sim_mode = "video" /\ pc = "loop") =>
        \A i \in 1..Len(sprites) :
            FallsInStep(i) =>
                /\ \E k \in 1..Len(sprites) : HitsInStep(k, i) > 0
                /\ TakenInStep(i, Len(sprites)) >= sprites[i].health
                /\ TakenInStep(i, Len(sprites)) - DamageInStep(LastHitter(i), i)
                       < sprites[i].health
                /\ \A k \in 1..Len(sprites) \ {i} :
                      /\ HitsInStep(k, i) <= 1
                      /\ HitsInStep(i, k) = HitsInStep(k, i)]_vars

\* the first sprite of three has just fallen in its collision with the second
\* while the third, its partner in the later pair (1, 3), is alive and took
\* part in no damage event of that step
C26_Witness ==
    /\ sim_mode = "video"
    /\ pc = "loop"
    /\ Len(sprites) = 3
    /\ ~sprites[1].alive /\ sprites[1].death_frame = frame_idx - 1
    /\ sprites[2].alive /\ sprites[3].alive
    /\ Get(collision_memory, <<1, 2>>, None) = frame_idx - 1
    /\ Get(collision_memory, <<1, 3>>, None) # frame_idx - 1
    /\ Get(collision_memory, <<2, 3>>, None) # frame_idx - 1

\* health of the fighter idx, still in the list or already in the ranking
FightHealth(fighters, ranking, idx) ==
    LET all == fighters \o ranking
    IN  all[CHOOSE k \in 1..Len(all) : all[k].idx = idx].health

\* what the exchange under way takes from the fighter idx
LostInExchange(idx) ==
    FightHealth(sprites, run_ranking, idx) - FightHealth(sprites', run_ranking', idx)

\* C27: run_fight terminates for every roster of N >= 1 fighters and every
\* sequence of random choices: each exchange lowers the health of exactly two
\* fighters, by at least 5 each, and the loop ends with at most one fighter
\* left after at most 10 * N exchanges.
C27_RunFightTerminates ==
    /\ [][(sim_mode = "fight" /\ pc = "loop" /\ Len(sprites) > 1) =>
            /\ Cardinality({idx \in 1..Len(roster) : LostInExchange(idx) # 0}) = 2
            /\ \A idx \in 1..Len(roster) :
                  LostInExchange(idx) # 0 => LostInExchange(idx) >= fight_min_damage]_vars
    /\ [](sim_mode = "fight" => frame_idx <= 10 * Len(roster))
    /\ <>(sim_mode = "fight" /\ pc = "done" /\ Len(sprites) <= 1)

\* a fight of three has ended after exactly thirty exchanges
C27_Witness ==
    /\ sim_mode = "fight"
    /\ pc = "done"
    /\ Len(roster) = 3
    /\ frame_idx = 30

\* C28: the denominator of the fraction-alive ratio, starting_fighters, equals
\* the number of fighters created for the run, min(len(roster), max_fighters),
\* for every roster length; so with all created fighters alive the damage
\* phase factor is early_damage_scale = 1/2.
C28_StartingFightersIsCreated ==
    (sim_mode = "setup" /\ pc = "created") =>
        /\ Len(sprites) = Min(Len(roster), max_fighters)
        /\ starting_fighters = Len(sprites)
        /\ 2 * _damage_scale(Len(sprites), starting_fighters)[1]
               = _damage_scale(Len(sprites), starting_fighters)[2]

\* C29: when exactly one of the two backup documents exists at a revert
\* issued after a run, the Score Ledger and the Stats both end at their
\* pre-run contents, the one without a backup being reverted analytically.
C29_RevertWithOneBackup ==
    (RevertedAfterRun /\ hist.had_board_backup # hist.had_stats_backup)
        => (LedgerNow = pre_board /\ StatsNow = pre_stats)
====
